---- MODULE Spec2Model ----
(***************************************************************************)
(* Model of the host-side session pool, admission queue, audio fan-out and *)
(* teardown of BluetoothController (src/js/bluetoothController.js), and of *)
(* the broadcast toggle of AudioController (src/unnamed/part_001); of the  *)
(* connection of ReceiverController (src/js/receiverController.js); of the *)
(* metric windows, thresholds, gauges and listeners of PerformanceMonitor  *)
(* and StatsMonitor (src/js/performanceMonitor.js, statsMonitor.js); and   *)
(* of the PCM codec of AudioController (src/js/audioController.js).        *)
(*                                                                         *)
(* Every asynchronous handler is cut at its awaits: one action runs the    *)
(* code from one await (or the call) to the next, which is what the        *)
(* JavaScript event loop runs without interleaving.                        *)
(***************************************************************************)
EXTENDS Integers, Sequences, FiniteSets, TLC

\* ----------------------------------------------------------------- constants
\* MAX_CONNECTIONS / this.maxConnections
maxConnections == 7
\* this.connectionTimeout (ms)
connectionTimeout == 10000
\* the literal 5000 of `Date.now() - data.lastActive > 5000` (ms)
inactivityThreshold == 5000

\* the scale of the negative samples (0x8000) and of the others (0x7FFF)
negativeScale == 32768
positiveScale == 32767
\* AudioController: the timestamps kept for the buffer health
maxBufferSize == 10
\* updateBufferHealth: the deviation that means health 0, ms
maxAcceptableStdDev == 50
\* NotificationManager: this.maxNotifications
maxNotifications == 3

\* ----------------------------------------------------------------- bounds
\* sessions already in the pool in the populated initial state
InitialSessions == 6
\* calls of handleConnectionRequest
MaxRequests == 2
\* the clock stops after this many ticks
MaxTicks == 5
\* calls of sendAudioData
MaxCycles == 1
\* sessions 1..MaxWeakLinks have a link on which a write can stay in flight
\* or fail, and which the transport can drop
MaxWeakLinks == 1
\* links the transport drops on its own
MaxDrops == 1
\* calls of disconnect()
MaxTeardowns == 1
\* frames the capture callback hands to the controller
MaxFrames == 2
\* calls of startBroadcasting
MaxStarts == 2
\* calls of stopBroadcasting
MaxStops == 2
\* completed calls of ReceiverController.connect
MaxRxConnects == 2
\* calls of ReceiverController.disconnect
MaxRxDisconnects == 2
\* calls of ReceiverController.startReceiving
MaxRxStarts == 2
\* measurements the monitor's windows take together
MaxSamples == 2
\* listeners that subscribe to one publisher
MaxListeners == 2
\* calls of add() on the MovingAverage of its own
MaxAdds == 4
\* that MovingAverage is built with a capacity of 1..MaxWindowSize
MaxWindowSize == 2
\* bits in the significand of a Number: integers up to 2^MantissaBits are
\* exact, a larger result of + or - is rounded to that many significant bits
\* (53 in the IEEE 754 doubles of JavaScript, scaled down here)
MantissaBits == 10
\* a frame has 1..MaxFrameLen samples
MaxFrameLen == 3
\* the pieces the longest packet on the transport splits into
MaxChunks == 3
\* frames the capture callback delivers
MaxArrivals == 12
\* calls of startHosting and connectToHost
MaxRoleStarts == 2
\* a byte stream of more than one byte has up to MaxBytes bytes
MaxBytes == 2
\* calls of NotificationManager.show
MaxShows == 5
\* the iterations of the loop of show() are counted up to MaxIterations
MaxIterations == 2

\* the clock (Date.now()) advances in steps of half the inactivity threshold
Tick == inactivityThreshold \div 2

VARIABLES
    now,               \* Date.now(), ms
    connectedDevices,  \* the Map, in insertion order: <<[id, sid, lastActive, connected]>>
    connectionQueue,   \* the array of queued requests (indices into requests)
    requests,          \* every handleConnectionRequest call so far, in call order
    disconnecting,     \* disconnectDevice calls awaiting server.disconnect()
    writes,            \* the writeValue calls in flight: [cycle, device, issued]
    sessions,          \* deviceInfo objects created so far
    cycles,            \* sendAudioData calls so far
    drops,             \* links dropped by the transport so far
    released,          \* per session (sid), the server.disconnect() calls made on it
    characteristic,    \* this.characteristic is set (startHosting), not null
    signalStrengthInterval,  \* the setInterval of startSignalStrengthMonitoring is armed
    teardowns,         \* every disconnect() call so far, in call order
    isHost,            \* this.isHost
    device,            \* this.device is set (connectToHost), not null
    server,            \* this.server is set, not null
    service,           \* this.service is set, not null
    gattConnected,     \* this.device.gatt.connected: the link connectToHost opened
    roleCalls          \* every startHosting and connectToHost call so far:
                       \* [kind, pc, before]

\* what startHosting and connectToHost set up and disconnect() tears down
hostVars == <<characteristic, signalStrengthInterval, teardowns, isHost, device,
              server, service, gattConnected, roleCalls>>

\* the state of the BluetoothController
controllerVars == <<now, connectedDevices, connectionQueue, requests,
                    disconnecting, writes, sessions, cycles, drops, released,
                    hostVars>>

\* the state of the AudioController
VARIABLES
    isBroadcasting,    \* this.isBroadcasting
    mediaStream,       \* this.mediaStream: a stream id, 0 for null
    sourceNode,        \* this.sourceNode: the stream id of the node, 0 for null
    isMonitoring,      \* performanceMonitor.isMonitoring
    streams,           \* every stream getUserMedia has returned: [tracks, node]
    starts,            \* every startBroadcasting call so far, in call order
    stops              \* every stopBroadcasting call so far, in call order

audioVars == <<isBroadcasting, mediaStream, sourceNode, isMonitoring, streams,
               starts, stops>>

\* the state of the ReceiverController
VARIABLES
    rxDevice,          \* this.device is set (a host was chosen), not null
    rxGatt,            \* this.device.gatt.connected
    isConnected,       \* this.isConnected
    isReceiving,       \* this.isReceiving
    rssiInterval,      \* this.rssiInterval holds the handle of an armed interval
    rxConnects,        \* connect() calls that have completed so far
    rxDisconnects,     \* every disconnect() call so far, in call order: its position
    rxIntervals,       \* the RSSI polling intervals armed and not cleared
    rxStarts           \* every startReceiving() call that passed its check, in
                       \* call order: its position

receiverVars == <<rxDevice, rxGatt, isConnected, isReceiving, rssiInterval,
                  rxConnects, rxDisconnects, rxIntervals, rxStarts>>

\* the state of the PerformanceMonitor with metric windows and listeners
\* (performanceMonitor.js, first class)
VARIABLES
    metrics,           \* this.metrics: four windows and the battery level
    listeners,         \* this.listeners, in insertion order (a Set iterates so)
    evaluation         \* what the last handler that evaluated or published did:
                       \* the alerts checkThresholds built and every fan-out made

monitorVars == <<metrics, listeners, evaluation>>

\* the state of the PerformanceMonitor with plain gauges
\* (performanceMonitor.js, second class)
VARIABLES
    gauges,            \* this.metrics: the last value of every gauge
    latencyBuffer,     \* this.latencyBuffer
    dispatched,        \* the 'performance:alert' events the last handler dispatched
    statsSignal,       \* metrics.signalStrength of the StatsMonitor
    lastRssi           \* <<rssi>> while gauges.signalStrength is the one stored
                       \* by updateSignalStrength(rssi), else <<>>

gaugeVars == <<gauges, latencyBuffer, dispatched, statsSignal, lastRssi>>

\* one MovingAverage of its own, and every value handed to its add() so far
VARIABLES
    window,
    added

windowVars == <<window, added>>

\* the connection listeners of the BluetoothController and its last fan-out
VARIABLES
    connectionListeners,   \* this.connectionListeners, in insertion order
    notified               \* the last notifyConnectionListeners call

listenerVars == <<connectionListeners, notified>>

telemetryVars == <<monitorVars, gaugeVars, windowVars, listenerVars>>

\* one frame on its way through the codec of the second AudioController
\* (audioController.js)
VARIABLES
    compression,       \* this.settings.compression
    frame,             \* the Float32Array handed to processAudioData
    compressedData,    \* the Uint8Array it returned, <<>> before that
    received           \* the Float32Array processReceivedAudio returned for
                       \* the payload, <<>> before that

codecVars == <<compression, frame, compressedData, received>>

\* one encoded packet on its way from sendAudioData to the receiver's worklet
VARIABLES
    packet,            \* audioData.buffer handed to sendAudioData, as bytes
    written,           \* the arguments of the writeValue calls to one session
    arrived,           \* the notifications handleAudioData has been called with:
                       \* [chunkIndex, receiving, connected]
    forwarded          \* the buffers posted to the audio worklet, in order

transportVars == <<packet, written, arrived, forwarded>>

\* the timing consistency of the capture callback
VARIABLES
    bufferQueue,       \* this.bufferQueue: performance.now() of the last frames, ms
    bufferHealth,      \* metrics.bufferHealth of the StatsMonitor, tenths of %
    intervals,         \* the intervals of the last health computation
    arrivals           \* updateBufferHealth calls so far

healthVars == <<bufferQueue, bufferHealth, intervals, arrivals>>

\* a byte stream through the 'low' profile
VARIABLES
    rawBytes,          \* the Uint8Array handed to lowCompression
    lowCompressed,     \* the Uint8Array it returned, <<>> before that
    decompressed       \* the Uint8Array decompressLow returned for it, <<>>
                       \* before that

lowVars == <<rawBytes, lowCompressed, decompressed>>

\* the NotificationManager
VARIABLES
    notifications,     \* this.notifications, in insertion order (a Set iterates so)
    hiding,            \* the notifications with a 'transitionend' listener of hide()
    autoHide,          \* the notifications whose auto-hide timer is armed
    showPc,            \* "idle", or "loop" while show() is in its while loop
    shown,             \* show() calls so far
    loopIterations     \* iterations of the while loop in the running show()
                       \* call, modulo MaxIterations + 1

noticeVars == <<notifications, hiding, autoHide, showPc, shown, loopIterations>>

laterVars == <<transportVars, healthVars, lowVars, noticeVars>>

\* what the actions of one component leave alone
outsideController == <<audioVars, receiverVars, telemetryVars, codecVars, laterVars>>

outsideAudio == <<controllerVars, receiverVars, telemetryVars, codecVars, laterVars>>

outsideReceiver == <<controllerVars, audioVars, telemetryVars, codecVars, laterVars>>

outsideTelemetry == <<controllerVars, audioVars, receiverVars, codecVars, laterVars>>

outsideCodec == <<controllerVars, audioVars, receiverVars, telemetryVars, laterVars>>

earlierVars == <<controllerVars, audioVars, receiverVars, telemetryVars, codecVars>>

outsideTransport == <<earlierVars, healthVars, lowVars, noticeVars>>

outsideHealth == <<earlierVars, transportVars, lowVars, noticeVars>>

outsideLow == <<earlierVars, transportVars, healthVars, noticeVars>>

outsideNotices == <<earlierVars, transportVars, healthVars, lowVars>>

vars == <<controllerVars, audioVars, receiverVars, telemetryVars, codecVars, laterVars>>

\* ----------------------------------------------------------------- the Map
PoolIds(pool) == {pool[i].id : i \in 1..Len(pool)}

InPool(pool, d) == d \in PoolIds(pool)

PoolIndex(pool, d) == CHOOSE i \in 1..Len(pool) : pool[i].id = d

\* Map.get
PoolGet(pool, d) == pool[PoolIndex(pool, d)]

\* Map.set: an existing key keeps its place in the iteration order
PoolSet(pool, info) ==
    IF InPool(pool, info.id)
    THEN [pool EXCEPT ![PoolIndex(pool, info.id)] = info]
    ELSE Append(pool, info)

\* Map.delete
PoolDelete(pool, d) == SelectSeq(pool, LAMBDA e : e.id # d)

PoolSids(pool) == {pool[i].sid : i \in 1..Len(pool)}

\* ----------------------------------------------------------------- requests
\* One handleConnectionRequest call: the candidate device, what the handler
\* saw on entry, and what has happened to its promise, its timer and its
\* queue entry since.
NewRequest(d, pool, stale) ==
    [device        |-> d,
     sizeAtArrival |-> Len(pool),
     staleAtArrival|-> {stale[i].sid : i \in 1..Len(stale)},
     victim        |-> 0,        \* id handed to disconnectDevice, 0 if none
     victimSid     |-> 0,
     enqueueTime   |-> -1,       \* -1: never pushed on connectionQueue
     ticket        |-> 0,        \* its place in the order of the pushes
     timer         |-> "none",   \* none | armed | fired | cleared
     outcome       |-> "pending",\* pending | resolved | timeout | error | full
     attempts      |-> 0,        \* gatt.connect() calls made for this request
     inflight      |-> 0,        \* of which still awaited
     connects      |-> 0,        \* 'connect' events announced for it
     removedBy     |-> "none"]   \* none | shift | timer

\* resolve()/reject() of a promise: only the first call settles it
Settle(rec, outcome) ==
    IF rec.outcome = "pending"
    THEN [rec EXCEPT !.outcome = outcome]
    ELSE rec

\* ----------------------------------------------------------------- admission
\* `Date.now() - data.lastActive > 5000`
IsInactive(info, t) == t - info.lastActive > inactivityThreshold

\* inactiveDevices: the entries of the Map, in iteration order, that pass the filter
InactiveDevices(pool, t) == SelectSeq(pool, LAMBDA e : IsInactive(e, t))

\* a variant that takes the last entry of the Map instead
EvictNewest(pool, t) == pool[Len(pool)]

\* `const [deviceId] = inactiveDevices[0]`
EvictionVictim(pool, t) == InactiveDevices(pool, t)[1]

\* a variant that queues the request when the pool is full and nothing is inactive
HoldWhenFull(pool, t) ==
    IF Len(pool) >= maxConnections /\ Len(InactiveDevices(pool, t)) > 0
    THEN "evict"
    ELSE "enqueue"

\* the branch handleConnectionRequest takes on entry
AdmissionDecision(pool, t) ==
    IF Len(pool) >= maxConnections
    THEN IF Len(InactiveDevices(pool, t)) > 0 THEN "evict" ELSE "reject"
    ELSE "enqueue"

\* disconnectDevice awaits server.disconnect() only for a live link
AwaitsDisconnect(pool, d) == InPool(pool, d) /\ PoolGet(pool, d).connected

\* deviceInfo.server.disconnect() is called on session sid
Release(rel, sid) == [rel EXCEPT ![sid] = @ + 1]

\* the requests pushed on connectionQueue so far
Pushed(reqs) == {q \in 1..Len(reqs) : reqs[q].enqueueTime >= 0}

\* a variant that pushes the request without arming its timer
PushWithoutTimer(reqs, r, t) ==
    [reqs EXCEPT ![r] = [@ EXCEPT !.enqueueTime = t,
                                  !.ticket = Cardinality(Pushed(reqs)) + 1]]

\* setTimeout(..., this.connectionTimeout) and connectionQueue.push(...)
Push(reqs, r, t) ==
    [reqs EXCEPT ![r] = [@ EXCEPT !.enqueueTime = t, !.timer = "armed",
                                  !.ticket = Cardinality(Pushed(reqs)) + 1]]

\* processConnectionQueue up to its await: connect the device of queue[0]
processConnectionQueue(reqs, queue) ==
    IF queue = <<>>
    THEN reqs
    ELSE [reqs EXCEPT ![queue[1]] =
             [@ EXCEPT !.inflight = @ + 1, !.attempts = @ + 1]]

\* the finally block: connectionQueue.shift(), then processConnectionQueue()
ShiftQueue(queue) == IF queue = <<>> THEN <<>> ELSE Tail(queue)

Finally(reqs, queue) ==
    LET shifted == IF queue = <<>>
                   THEN reqs
                   ELSE [reqs EXCEPT ![queue[1]].removedBy = "shift"]
    IN  processConnectionQueue(shifted, ShiftQueue(queue))

\* every request is for a device not seen before: the next unused device id
NextDevice == InitialSessions + Len(requests) + 1

\* new Promise(...) of handleConnectionRequest: arm the timer, push, process
Enqueue(reqs, r) ==
    /\ connectionQueue' = Append(connectionQueue, r)
    /\ requests' = processConnectionQueue(Push(reqs, r, now),
                                          Append(connectionQueue, r))

\* handleConnectionRequest(device), from the call to its first await
HandleConnectionRequest ==
    /\ Len(requests) < MaxRequests
    /\ LET r        == Len(requests) + 1
           stale    == InactiveDevices(connectedDevices, now)
           base     == NewRequest(NextDevice, connectedDevices, stale)
           decision == AdmissionDecision(connectedDevices, now)
       IN  CASE decision = "reject" ->
                  \* throw new Error('Maximum connection limit reached')
                  /\ requests' = Append(requests, Settle(base, "full"))
                  /\ UNCHANGED <<connectedDevices, connectionQueue, disconnecting,
                                 released>>
             [] decision = "enqueue" ->
                  /\ Enqueue(Append(requests, base), r)
                  /\ UNCHANGED <<connectedDevices, disconnecting, released>>
             [] decision = "evict" ->
                  LET v    == EvictionVictim(connectedDevices, now)
                      mine == [base EXCEPT !.victim = v.id, !.victimSid = v.sid]
                  IN  IF AwaitsDisconnect(connectedDevices, v.id)
                      THEN \* await deviceInfo.server.disconnect()
                           /\ disconnecting' = disconnecting \cup
                                  {[req |-> r, device |-> v.id, cycle |-> 0]}
                           /\ released' = Release(released, v.sid)
                           /\ requests' = Append(requests, mine)
                           /\ UNCHANGED <<connectedDevices, connectionQueue>>
                      ELSE /\ connectedDevices' = PoolDelete(connectedDevices, v.id)
                           /\ Enqueue(Append(requests, mine), r)
                           /\ UNCHANGED <<disconnecting, released>>
    /\ UNCHANGED <<now, writes, sessions, cycles, drops, hostVars, outsideController>>

\* server.disconnect() has completed: the rest of disconnectDevice, and, for
\* an eviction, the rest of handleConnectionRequest
DisconnectDone(e) ==
    /\ e \in disconnecting
    /\ disconnecting' = disconnecting \ {e}
    /\ connectedDevices' = PoolDelete(connectedDevices, e.device)
    /\ IF e.req = 0
       THEN UNCHANGED <<connectionQueue, requests>>
       ELSE Enqueue(requests, e.req)
    /\ UNCHANGED <<now, writes, sessions, cycles, drops, released, hostVars, outsideController>>

\* request.device.gatt.connect() resolves: the try block and the finally block
ConnectSucceeds(r) ==
    /\ r \in 1..Len(requests)
    /\ requests[r].inflight > 0
    /\ LET info == [id |-> requests[r].device, sid |-> sessions + 1,
                    lastActive |-> now, connected |-> TRUE]
           done == [requests EXCEPT ![r] =
                       [Settle(@, "resolved") EXCEPT
                           !.inflight = @ - 1,
                           !.connects = @ + 1,
                           !.timer = IF @ = "armed" THEN "cleared" ELSE @]]
       IN  /\ connectedDevices' = PoolSet(connectedDevices, info)
           /\ sessions' = sessions + 1
           /\ released' = Append(released, 0)
           /\ requests' = Finally(done, connectionQueue)
           /\ connectionQueue' = ShiftQueue(connectionQueue)
    /\ UNCHANGED <<now, disconnecting, writes, cycles, drops, hostVars, outsideController>>

\* request.device.gatt.connect() rejects: the catch block and the finally block
ConnectFails(r) ==
    /\ r \in 1..Len(requests)
    /\ requests[r].inflight > 0
    /\ LET done == [requests EXCEPT ![r] =
                       [Settle(@, "error") EXCEPT !.inflight = @ - 1]]
       IN  /\ requests' = Finally(done, connectionQueue)
           /\ connectionQueue' = ShiftQueue(connectionQueue)
    /\ UNCHANGED <<now, connectedDevices, disconnecting, writes, sessions,
                   cycles, drops, released, hostVars, outsideController>>

\* ----------------------------------------------------------------- timers
\* a variant that takes the inactivity threshold for the delay
TimerDueEarly(rec, t) ==
    rec.timer = "armed" /\ t - rec.enqueueTime >= inactivityThreshold

\* the timer of a request is due connectionTimeout ms after it was armed
TimerDue(rec, t) == rec.timer = "armed" /\ t - rec.enqueueTime >= connectionTimeout

\* the setTimeout callback of handleConnectionRequest
TimerFires(r) ==
    /\ r \in 1..Len(requests)
    /\ TimerDue(requests[r], now)
    /\ LET d    == requests[r].device
           gone == {connectionQueue[i] : i \in
                       {j \in 1..Len(connectionQueue) :
                           requests[connectionQueue[j]].device = d}}
       IN  /\ connectionQueue' =
                  SelectSeq(connectionQueue, LAMBDA q : requests[q].device # d)
           /\ requests' = [q \in 1..Len(requests) |->
                  LET marked == IF q \in gone
                                THEN [requests[q] EXCEPT !.removedBy = "timer"]
                                ELSE requests[q]
                  IN  IF q = r
                      THEN [Settle(marked, "timeout") EXCEPT !.timer = "fired"]
                      ELSE marked]
    /\ UNCHANGED <<now, connectedDevices, disconnecting, writes, sessions,
                   cycles, drops, released, hostVars, outsideController>>

\* One tick of the clock; a timer that is due fires before the clock advances
\* further.
ClockTick ==
    /\ \A r \in 1..Len(requests) : ~TimerDue(requests[r], now)
    /\ now' = now + Tick
    /\ UNCHANGED <<connectedDevices, connectionQueue, requests, disconnecting,
                   writes, sessions, cycles, drops, released, hostVars, outsideController>>

\* The clock advances up to the horizon.
AdvanceTime ==
    /\ now < MaxTicks * Tick
    /\ ClockTick

\* Past the horizon the clock advances as long as a timer is still armed.
AdvanceToDeadline ==
    /\ now >= MaxTicks * Tick
    /\ \E r \in 1..Len(requests) : requests[r].timer = "armed"
    /\ ClockTick

\* ----------------------------------------------------------------- fan-out
\* a variant that records the activity of an unknown id as a new entry
RecordOrCreate(pool, d, t) ==
    PoolSet(pool, [id |-> d, sid |-> 0, lastActive |-> t, connected |-> TRUE])

\* updateDeviceActivity(deviceId)
updateDeviceActivity(pool, d, t) ==
    IF InPool(pool, d)
    THEN [pool EXCEPT ![PoolIndex(pool, d)].lastActive = t]
    ELSE pool

\* the sessions whose link is unreliable
WeakLinks == 1..MaxWeakLinks

\* a variant that stops issuing writes after the first entry whose link is down
TargetsUpToFailure(pool) ==
    {pool[i].id : i \in {j \in 1..Len(pool) :
                            \A k \in 1..(j - 1) : pool[k].connected}}

\* `Array.from(this.connectedDevices.entries()).map(...)`: a writeValue is
\* issued for every entry of the Map before the first await gives way
FanOutTargets(pool) == PoolIds(pool)

\* sendAudioData(audioData) on a hosting controller (with no characteristic
\* the call returns at once). The writes in slow stay in flight; every other
\* write settles before any other handler runs: it succeeds on a live link,
\* and fails with a 'disconnected' error on a dropped one, which
\* disconnectDevice removes without awaiting.
FanOut(slow) ==
    /\ isHost
    /\ characteristic
    /\ slow \subseteq FanOutTargets(connectedDevices) \cap WeakLinks
    /\ cycles' = cycles + 1
    /\ writes' = writes \cup
          {[cycle |-> cycles + 1, device |-> d, issued |-> now] : d \in slow}
    /\ connectedDevices' =
          LET targets == FanOutTargets(connectedDevices)
              acked == [i \in 1..Len(connectedDevices) |->
                  LET e == connectedDevices[i]
                  IN  IF e.id \in targets /\ e.id \notin slow /\ e.connected
                      THEN [e EXCEPT !.lastActive = now]
                      ELSE e]
          IN  SelectSeq(acked, LAMBDA e :
                  e.id \notin targets \/ e.id \in slow \/ e.connected)
    /\ UNCHANGED <<now, connectionQueue, requests, disconnecting, sessions, drops,
                   released, hostVars>>

SendAudioData(slow) ==
    /\ FanOut(slow)
    /\ UNCHANGED outsideController

\* a call of sendAudioData by the host application
HostSendsAudio ==
    /\ cycles < MaxCycles
    /\ \E slow \in SUBSET WeakLinks : SendAudioData(slow)

\* onaudioprocess: the capture callback calls onAudioData(compressedData) for
\* the frame and does not await it; the callback sends the frame if a device
\* is connected
OnAudioProcess ==
    /\ cycles < MaxFrames
    /\ Len(connectedDevices) > 0
    /\ \E slow \in SUBSET WeakLinks : SendAudioData(slow)

\* a writeValue in flight resolves: updateDeviceActivity(deviceId)
WriteSucceeds(w) ==
    /\ w \in writes
    /\ writes' = writes \ {w}
    /\ connectedDevices' = updateDeviceActivity(connectedDevices, w.device, now)
    /\ UNCHANGED <<now, connectionQueue, requests, disconnecting, sessions,
                   cycles, drops, released, hostVars, outsideController>>

\* a writeValue in flight rejects; disconnectDevice(deviceId) only if the
\* error message includes 'disconnected'
WriteFails(w, saysDisconnected) ==
    /\ w \in writes
    /\ writes' = writes \ {w}
    /\ IF ~saysDisconnected
       THEN UNCHANGED <<connectedDevices, disconnecting, released>>
       ELSE IF AwaitsDisconnect(connectedDevices, w.device)
            THEN /\ disconnecting' = disconnecting \cup
                        {[req |-> 0, device |-> w.device, cycle |-> w.cycle]}
                 /\ released' = Release(released,
                                        PoolGet(connectedDevices, w.device).sid)
                 /\ UNCHANGED connectedDevices
            ELSE /\ connectedDevices' = PoolDelete(connectedDevices, w.device)
                 /\ UNCHANGED <<disconnecting, released>>
    /\ UNCHANGED <<now, connectionQueue, requests, sessions, cycles, drops,
                   hostVars, outsideController>>

\* the transport loses the link of a session: server.connected turns false
DeviceDrops(d) ==
    /\ drops < MaxDrops
    /\ d \in WeakLinks
    /\ InPool(connectedDevices, d)
    /\ PoolGet(connectedDevices, d).connected
    /\ drops' = drops + 1
    /\ connectedDevices' =
          [connectedDevices EXCEPT ![PoolIndex(connectedDevices, d)].connected = FALSE]
    /\ UNCHANGED <<now, connectionQueue, requests, disconnecting, writes,
                   sessions, cycles, released, hostVars, outsideController>>

\* ----------------------------------------------------------------- teardown
\* disconnect(): clears the signal-strength interval, empties the Map and
\* drops the characteristic. It calls server.disconnect() on no session and
\* touches neither connectionQueue nor the timers of its entries.
Disconnect ==
    /\ Len(teardowns) < MaxTeardowns
    /\ teardowns' = Append(teardowns, [requests |-> Len(requests)])
    /\ signalStrengthInterval' = FALSE
    /\ connectedDevices' = <<>>
    /\ characteristic' = FALSE
    /\ gattConnected' = FALSE
    /\ device' = FALSE
    /\ server' = FALSE
    /\ service' = FALSE
    /\ UNCHANGED <<now, connectionQueue, requests, disconnecting, writes,
                   sessions, cycles, drops, released, isHost, roleCalls,
                   outsideController>>

\* ----------------------------------------------------------------- roles
\* the fields a role start assigns, and the link it opens
RoleState ==
    [isHost |-> isHost, device |-> device, server |-> server,
     service |-> service, characteristic |-> characteristic,
     gattConnected |-> gattConnected]

RoleCallRunning ==
    \E c \in 1..Len(roleCalls) : roleCalls[c].pc \notin {"returned", "threw"}

\* startHosting(), from the call to `await navigator.bluetooth.getGATTServer()`
StartHosting ==
    /\ Len(roleCalls) < MaxRoleStarts
    /\ ~RoleCallRunning
    /\ roleCalls' = Append(roleCalls,
          [kind |-> "host", pc |-> "getGATTServer", before |-> RoleState])
    /\ isHost' = TRUE
    /\ UNCHANGED <<now, connectedDevices, connectionQueue, requests,
                   disconnecting, writes, sessions, cycles, drops, released,
                   characteristic, signalStrengthInterval, teardowns, device,
                   server, service, gattConnected, outsideController>>

\* the promise startHosting awaits has resolved: the result is stored and the
\* next step is awaited; after startAdvertising the monitoring starts and the
\* call returns
HostingStepDone(c) ==
    /\ c \in 1..Len(roleCalls)
    /\ roleCalls[c].kind = "host"
    /\ LET pc == roleCalls[c].pc
       IN  /\ pc \in {"getGATTServer", "createService", "createCharacteristic",
                      "startAdvertising"}
           /\ server' = (server \/ pc = "getGATTServer")
           /\ service' = (service \/ pc = "createService")
           /\ characteristic' = (characteristic \/ pc = "createCharacteristic")
           /\ signalStrengthInterval' =
                 (signalStrengthInterval \/ pc = "startAdvertising")
           /\ roleCalls' = [roleCalls EXCEPT ![c].pc =
                 CASE pc = "getGATTServer" -> "createService"
                   [] pc = "createService" -> "createCharacteristic"
                   [] pc = "createCharacteristic" -> "startAdvertising"
                   [] pc = "startAdvertising" -> "returned"]
    /\ UNCHANGED <<now, connectedDevices, connectionQueue, requests,
                   disconnecting, writes, sessions, cycles, drops, released,
                   teardowns, isHost, device, gattConnected, outsideController>>

\* connectToHost(), up to `await navigator.bluetooth.requestDevice(...)`
ConnectToHost ==
    /\ Len(roleCalls) < MaxRoleStarts
    /\ ~RoleCallRunning
    /\ roleCalls' = Append(roleCalls,
          [kind |-> "client", pc |-> "requestDevice", before |-> RoleState])
    /\ UNCHANGED <<now, connectedDevices, connectionQueue, requests,
                   disconnecting, writes, sessions, cycles, drops, released,
                   characteristic, signalStrengthInterval, teardowns, isHost,
                   device, server, service, gattConnected, outsideController>>

\* the promise connectToHost awaits has resolved: the result is stored and
\* the next step is awaited. A chosen device without gatt makes the call
\* throw; after getCharacteristic the monitoring starts and the call returns
ConnectingStepDone(c, gatt) ==
    /\ c \in 1..Len(roleCalls)
    /\ roleCalls[c].kind = "client"
    /\ LET pc == roleCalls[c].pc
       IN  /\ pc \in {"requestDevice", "connect", "getPrimaryService",
                      "getCharacteristic"}
           /\ pc # "requestDevice" => gatt
           /\ device' = (device \/ pc = "requestDevice")
           /\ server' = (server \/ pc = "connect")
           /\ gattConnected' = (gattConnected \/ pc = "connect")
           /\ service' = (service \/ pc = "getPrimaryService")
           /\ characteristic' = (characteristic \/ pc = "getCharacteristic")
           /\ signalStrengthInterval' =
                 (signalStrengthInterval \/ pc = "getCharacteristic")
           /\ roleCalls' = [roleCalls EXCEPT ![c].pc =
                 CASE pc = "requestDevice" -> IF gatt THEN "connect" ELSE "threw"
                   [] pc = "connect" -> "getPrimaryService"
                   [] pc = "getPrimaryService" -> "getCharacteristic"
                   [] pc = "getCharacteristic" -> "returned"]
    /\ UNCHANGED <<now, connectedDevices, connectionQueue, requests,
                   disconnecting, writes, sessions, cycles, drops, released,
                   teardowns, isHost, outsideController>>

\* the promise a role start awaits has rejected: the catch block logs and
\* throws a new Error
RoleStepFails(c) ==
    /\ c \in 1..Len(roleCalls)
    /\ roleCalls[c].pc \notin {"returned", "threw"}
    /\ roleCalls' = [roleCalls EXCEPT ![c].pc = "threw"]
    /\ UNCHANGED <<now, connectedDevices, connectionQueue, requests,
                   disconnecting, writes, sessions, cycles, drops, released,
                   characteristic, signalStrengthInterval, teardowns, isHost,
                   device, server, service, gattConnected, outsideController>>

\* ----------------------------------------------------------------- broadcast
\* a variant that never takes the early return
NeverBroadcasting(flag) == FALSE

\* `if (this.isBroadcasting) return;`
AlreadyBroadcasting(flag) == flag

\* startBroadcasting(), from the call to `await this.audioContext.resume()`
StartBroadcasting ==
    /\ Len(starts) < MaxStarts
    /\ starts' = Append(starts,
          [pc |-> IF AlreadyBroadcasting(isBroadcasting)
                  THEN "returned" ELSE "resume",
           sawBroadcasting |-> isBroadcasting,
           stream |-> 0])
    /\ UNCHANGED <<isBroadcasting, mediaStream, sourceNode, isMonitoring,
                   streams, stops, outsideAudio>>

\* resume() has resolved: getUserMedia is called and awaited
ResumeDone(c) ==
    /\ c \in 1..Len(starts)
    /\ starts[c].pc = "resume"
    /\ starts' = [starts EXCEPT ![c].pc = "getUserMedia"]
    /\ UNCHANGED <<isBroadcasting, mediaStream, sourceNode, isMonitoring,
                   streams, stops, outsideAudio>>

\* getUserMedia has resolved: the rest of the try block
GetUserMediaDone(c) ==
    /\ c \in 1..Len(starts)
    /\ starts[c].pc = "getUserMedia"
    /\ LET id == Len(streams) + 1
       IN  /\ streams' = Append(streams, [tracks |-> "live", node |-> "connected"])
           /\ mediaStream' = id
           /\ sourceNode' = id
           /\ starts' = [starts EXCEPT ![c].pc = "started", ![c].stream = id]
    /\ isBroadcasting' = TRUE
    /\ isMonitoring' = TRUE
    /\ UNCHANGED <<stops, outsideAudio>>

\* resume() or getUserMedia has rejected: the catch block rethrows
StartFails(c) ==
    /\ c \in 1..Len(starts)
    /\ starts[c].pc \in {"resume", "getUserMedia"}
    /\ starts' = [starts EXCEPT ![c].pc = "failed"]
    /\ UNCHANGED <<isBroadcasting, mediaStream, sourceNode, isMonitoring,
                   streams, stops, outsideAudio>>

\* stopBroadcasting(): it has no await and runs to its end
StopBroadcasting ==
    /\ Len(stops) < MaxStops
    /\ stops' = Append(stops, [sawBroadcasting |-> isBroadcasting])
    /\ IF ~isBroadcasting
       THEN UNCHANGED <<isBroadcasting, mediaStream, sourceNode, isMonitoring,
                        streams>>
       ELSE /\ streams' = [i \in 1..Len(streams) |->
                   [tracks |-> IF i = mediaStream
                               THEN "stopped" ELSE streams[i].tracks,
                    node   |-> IF i = sourceNode
                               THEN "disconnected" ELSE streams[i].node]]
            /\ mediaStream' = 0
            /\ sourceNode' = 0
            /\ isBroadcasting' = FALSE
            /\ isMonitoring' = FALSE
    /\ UNCHANGED <<starts, outsideAudio>>

\* ----------------------------------------------------------------- receiver
\* handleDisconnection()
HandleDisconnection ==
    /\ isConnected' = FALSE
    /\ isReceiving' = FALSE
    /\ rssiInterval' = FALSE
    /\ rxIntervals' = IF rssiInterval THEN rxIntervals - 1 ELSE rxIntervals

\* connect() completes: the device is chosen, the GATT server connected,
\* notifications started, and startConnectionMonitoring() arms an interval
\* and stores its handle over the one it held
RxConnect ==
    /\ rxConnects < MaxRxConnects
    /\ rxConnects' = rxConnects + 1
    /\ rxDevice' = TRUE
    /\ rxGatt' = TRUE
    /\ isConnected' = TRUE
    /\ rssiInterval' = TRUE
    /\ rxIntervals' = rxIntervals + 1
    /\ UNCHANGED <<isReceiving, rxDisconnects, rxStarts, outsideReceiver>>

\* startReceiving() on a connected receiver, up to
\* `await this.audioContext.resume()`
StartReceiving ==
    /\ Len(rxStarts) < MaxRxStarts
    /\ isConnected
    /\ rxStarts' = Append(rxStarts, "resume")
    /\ UNCHANGED <<rxDevice, rxGatt, isConnected, isReceiving, rssiInterval,
                   rxConnects, rxDisconnects, rxIntervals, outsideReceiver>>

\* resume() has resolved: startReceiving sets isReceiving and returns
RxResumeDone(c) ==
    /\ c \in 1..Len(rxStarts)
    /\ rxStarts[c] = "resume"
    /\ rxStarts' = [rxStarts EXCEPT ![c] = "done"]
    /\ isReceiving' = TRUE
    /\ UNCHANGED <<rxDevice, rxGatt, isConnected, rssiInterval, rxConnects,
                   rxDisconnects, rxIntervals, outsideReceiver>>

\* disconnect(), from the call into stopReceiving() up to
\* `await this.characteristic?.stopNotifications()`
RxDisconnect ==
    /\ Len(rxDisconnects) < MaxRxDisconnects
    /\ rxDisconnects' = Append(rxDisconnects, "stopNotifications")
    /\ isReceiving' = FALSE
    /\ UNCHANGED <<rxDevice, rxGatt, isConnected, rssiInterval, rxConnects,
                   rxIntervals, rxStarts, outsideReceiver>>

\* the catch block of stopReceiving rethrows: disconnect() rejects at its
\* first await
RethrowFromStop(c) ==
    /\ rxDisconnects' = [rxDisconnects EXCEPT ![c] = "failed"]
    /\ UNCHANGED <<rxDevice, rxGatt, isConnected, isReceiving, rssiInterval,
                   rxIntervals>>

\* stopNotifications() rejects
StopNotificationsFails(c) ==
    /\ c \in 1..Len(rxDisconnects)
    /\ rxDisconnects[c] = "stopNotifications"
    /\ rxDevice
    /\ RethrowFromStop(c)
    /\ UNCHANGED <<rxConnects, rxStarts, outsideReceiver>>

\* stopNotifications() resolves: the rest of disconnect(). gatt.disconnect()
\* closes the link if it is open; the fields are cleared and
\* handleDisconnection() runs.
StopNotificationsDone(c) ==
    /\ c \in 1..Len(rxDisconnects)
    /\ rxDisconnects[c] = "stopNotifications"
    /\ rxDisconnects' = [rxDisconnects EXCEPT ![c] = "done"]
    /\ rxGatt' = FALSE
    /\ rxDevice' = FALSE
    /\ HandleDisconnection
    /\ UNCHANGED <<rxConnects, rxStarts, outsideReceiver>>

\* the link is lost: 'gattserverdisconnected' runs handleDisconnection()
HostLost ==
    /\ rxGatt
    /\ rxGatt' = FALSE
    /\ HandleDisconnection
    /\ UNCHANGED <<rxDevice, rxConnects, rxDisconnects, rxStarts, outsideReceiver>>

\* ----------------------------------------------------------------- metric windows
\* new MovingAverage(size)
MovingAverage(size) == [size |-> size, values |-> <<>>, sum |-> 0]

\* the number of bits of a natural number
RECURSIVE Bits(_)
Bits(n) == IF n = 0 THEN 0 ELSE 1 + Bits(n \div 2)

\* The Number nearest to the integer x: x itself while it fits the
\* significand, else x rounded to MantissaBits significant bits, a tie going
\* to the even significand (the rounding of + and - on Numbers).
Fl(x) ==
    LET mag == IF x < 0 THEN 0 - x ELSE x
        ulp == 2 ^ (Bits(mag) - MantissaBits)
        q == mag \div ulp
        r == mag % ulp
        up == 2 * r > ulp \/ (2 * r = ulp /\ q % 2 = 1)
        rounded == (IF up THEN q + 1 ELSE q) * ulp
    IN  IF Bits(mag) <= MantissaBits THEN x
        ELSE IF x < 0 THEN 0 - rounded ELSE rounded

\* a variant of add() that lets the window grow past its capacity
addUnbounded(w, value) ==
    [w EXCEPT !.values = Append(@, value), !.sum = Fl(@ + value)]

\* add(value): push and add to the sum; past the capacity, shift the oldest
\* value out and subtract it
add(w, value) ==
    LET pushed == [w EXCEPT !.values = Append(@, value), !.sum = Fl(@ + value)]
    IN  IF Len(pushed.values) > w.size
        THEN [pushed EXCEPT !.sum = Fl(@ - Head(pushed.values)),
                            !.values = Tail(@)]
        ELSE pushed

\* the values handed to the MovingAverage of its own: small ones, and one at
\* the edge of the exact integers
WindowSamples == {1, 2, 2 ^ MantissaBits}

\* window.add(value)
AddToWindow(value) ==
    /\ Len(added) < MaxAdds
    /\ window' = add(window, value)
    /\ added' = Append(added, value)
    /\ UNCHANGED <<monitorVars, gaugeVars, listenerVars, outsideTelemetry>>

\* average(): 0 for an empty window, else sum / length. The quotient is kept
\* exact, as numerator and denominator.
average(w) ==
    IF Len(w.values) = 0
    THEN [num |-> 0, den |-> 1]
    ELSE [num |-> w.sum, den |-> Len(w.values)]

\* quotient > limit
Exceeds(q, limit) == q.num > limit * q.den

\* ----------------------------------------------------------------- monitor
\* this.thresholds. The battery level is counted in hundredths, so that 0.2
\* is 20.
thresholds ==
    [audioLatency |-> 100, bluetoothLatency |-> 200, processingTime |-> 50,
     batteryLevel |-> 20]

\* this.metrics after the constructor; batteryLevel is <<>> for null and
\* <<level>> for a level
NewMetrics ==
    [audioLatency |-> MovingAverage(50),
     bluetoothLatency |-> MovingAverage(50),
     processingTime |-> MovingAverage(50),
     batteryLevel |-> <<>>,
     cpuUsage |-> MovingAverage(10)]

\* the metrics that checkThresholds compares as window averages
WindowMetrics == {"audioLatency", "bluetoothLatency", "processingTime"}

\* the message of the alert checkThresholds builds for a metric
AlertMessage ==
    [audioLatency |-> "High audio latency detected",
     bluetoothLatency |-> "High Bluetooth latency detected",
     processingTime |-> "High processing time detected",
     batteryLevel |-> "Low battery level"]

\* the alerts array checkThresholds builds, in the order of its four tests
ThresholdAlerts(m) ==
    LET high(name) ==
            IF Exceeds(average(m[name]), thresholds[name])
            THEN <<[type |-> "warning", message |-> AlertMessage[name],
                    value |-> average(m[name])]>>
            ELSE <<>>
        low ==
            IF m.batteryLevel # <<>> /\ m.batteryLevel[1] < thresholds.batteryLevel
            THEN <<[type |-> "warning", message |-> AlertMessage.batteryLevel,
                    value |-> [num |-> m.batteryLevel[1], den |-> 100]]>>
            ELSE <<>>
    IN  high("audioLatency") \o high("bluetoothLatency")
            \o high("processingTime") \o low

\* the update object notifyListeners builds from the metrics
Update(m) ==
    [audioLatency |-> average(m.audioLatency),
     bluetoothLatency |-> average(m.bluetoothLatency),
     processingTime |-> average(m.processingTime),
     batteryLevel |-> m.batteryLevel,
     cpuUsage |-> average(m.cpuUsage)]

\* forEach over the listeners without a try/catch around the call: the first
\* listener that throws ends the loop and the exception leaves the publisher
ForEachUnguarded(ls, throwers, payload) ==
    LET thrown == {i \in 1..Len(ls) : ls[i] \in throwers}
        last == IF thrown = {} THEN Len(ls)
                ELSE CHOOSE i \in thrown : \A j \in thrown : i <= j
    IN  [deliveries |-> [i \in 1..last |->
                            [listener |-> ls[i], payload |-> payload,
                             threw |-> ls[i] \in throwers]],
         failed |-> thrown # {}]

\* forEach over the listeners with the call in try/catch: every listener is
\* called with the payload, a throw is logged, the publisher returns
ForEachGuarded(ls, throwers, payload) ==
    [deliveries |-> [i \in 1..Len(ls) |->
                        [listener |-> ls[i], payload |-> payload,
                         threw |-> ls[i] \in throwers]],
     failed |-> FALSE]

\* notifyListeners(): it declares no parameter, so whatever the caller passes
\* is dropped; the payload is always the update object
notifyListeners(m, ls, throwers, passed) ==
    [passed |-> passed, registered |-> ls]
        @@ ForEachGuarded(ls, throwers, Update(m))

\* checkThresholds(): the alerts, and one fan-out if there is any alert
checkThresholds(m, ls, throwers) ==
    LET alerts == ThresholdAlerts(m)
    IN  [alerts |-> alerts,
         published |->
            IF Len(alerts) > 0
            THEN <<notifyListeners(m, ls, throwers,
                                   [type |-> "alerts", alerts |-> alerts])>>
            ELSE <<>>]

\* the values a measurement of a metric takes: at its threshold and just above
Measurements(name) == {thresholds[name], thresholds[name] + 1}

\* measurements held by the four windows together
Samples(m) ==
    Len(m.audioLatency.values) + Len(m.bluetoothLatency.values)
        + Len(m.processingTime.values) + Len(m.cpuUsage.values)

\* addLatencyMeasurement(type, value) and addProcessingTime(time): add to the
\* window, then checkThresholds()
AddMeasurement(name, value) ==
    /\ Samples(metrics) < MaxSamples
    /\ metrics' = [metrics EXCEPT ![name] = add(@, value)]
    /\ \E throwers \in SUBSET {listeners[i] : i \in 1..Len(listeners)} :
          evaluation' = checkThresholds(metrics', listeners, throwers)
    /\ UNCHANGED <<listeners, gaugeVars, windowVars, listenerVars,
                   outsideTelemetry>>

\* start(): getBattery() resolves and the level is stored, without a check
BatteryReady(level) ==
    /\ metrics.batteryLevel = <<>>
    /\ metrics' = [metrics EXCEPT !.batteryLevel = <<level>>]
    /\ UNCHANGED <<listeners, evaluation, gaugeVars, windowVars, listenerVars,
                   outsideTelemetry>>

\* 'levelchange': the level is stored, then checkThresholds()
LevelChange(level) ==
    /\ metrics.batteryLevel # <<>>
    /\ metrics.batteryLevel # <<level>>
    /\ metrics' = [metrics EXCEPT !.batteryLevel = <<level>>]
    /\ \E throwers \in SUBSET {listeners[i] : i \in 1..Len(listeners)} :
          evaluation' = checkThresholds(metrics', listeners, throwers)
    /\ UNCHANGED <<listeners, gaugeVars, windowVars, listenerVars,
                   outsideTelemetry>>

\* the monitoring interval: updateMetrics() adds a CPU sample, runs
\* checkThresholds() and then notifyListeners()
UpdateMetrics(cpu) ==
    /\ Samples(metrics) < MaxSamples
    /\ metrics' = [metrics EXCEPT !.cpuUsage = add(@, cpu)]
    /\ \E throwers \in SUBSET {listeners[i] : i \in 1..Len(listeners)} :
          LET checked == checkThresholds(metrics', listeners, throwers)
          IN  evaluation' =
                [checked EXCEPT !.published =
                    @ \o <<notifyListeners(metrics', listeners, throwers, <<>>)>>]
    /\ UNCHANGED <<listeners, gaugeVars, windowVars, listenerVars,
                   outsideTelemetry>>

\* addListener(listener) with a listener that is not registered yet; the
\* listeners are numbered in the order they register
AddListener ==
    /\ Len(listeners) < MaxListeners
    /\ listeners' = Append(listeners, Len(listeners) + 1)
    /\ UNCHANGED <<metrics, evaluation, gaugeVars, windowVars, listenerVars,
                   outsideTelemetry>>

\* ----------------------------------------------------------------- connection events
\* the types of the events BluetoothController hands to
\* notifyConnectionListeners
ConnectionEventTypes ==
    {"signal", "disconnect", "connect", "error", "cleanup"}

\* notifyConnectionListeners(event)
notifyConnectionListeners(ls, throwers, event) ==
    [passed |-> event, registered |-> ls] @@ ForEachGuarded(ls, throwers, event)

\* addConnectionListener(listener) with a listener that is not registered yet
AddConnectionListener ==
    /\ Len(connectionListeners) < MaxListeners
    /\ connectionListeners' =
          Append(connectionListeners, Len(connectionListeners) + 1)
    /\ UNCHANGED <<notified, monitorVars, gaugeVars, windowVars,
                   outsideTelemetry>>

\* the controller publishes a connection event
NotifyConnectionListeners(type) ==
    /\ \E throwers \in SUBSET {connectionListeners[i] :
                                  i \in 1..Len(connectionListeners)} :
          notified' = <<notifyConnectionListeners(connectionListeners, throwers,
                                                  [type |-> type])>>
    /\ UNCHANGED <<connectionListeners, monitorVars, gaugeVars, windowVars,
                   outsideTelemetry>>

\* ----------------------------------------------------------------- gauges
\* this.metrics after the constructor of the second PerformanceMonitor; the
\* average latency is kept as an exact quotient
NewGauges ==
    [audioLatency |-> [num |-> 0, den |-> 1], bluetoothLatency |-> 0,
     cpuUsage |-> 0, batteryLevel |-> 100, signalStrength |-> 0]

\* the RSSI readings: value.getInt8(0)
RssiValues == (0 - 2 ^ 7)..(2 ^ 7 - 1)

Min(a, b) == IF a < b THEN a ELSE b

Max(a, b) == IF a > b THEN a ELSE b

\* the conversion without the clamp
SignalPercentUnclamped(rssi) == 2 * (rssi + 100)

\* Math.min(100, Math.max(0, 2 * (rssi + 100)))
SignalPercent(rssi) == Min(100, Max(0, 2 * (rssi + 100)))

\* updateSignalStrength(rssi): store the percentage, alert below 30
UpdateSignalStrength(rssi) ==
    /\ gauges' = [gauges EXCEPT !.signalStrength = SignalPercent(rssi)]
    /\ lastRssi' = <<rssi>>
    /\ dispatched' =
          IF SignalPercent(rssi) < 30
          THEN <<[type |-> "warning", message |-> "Poor signal strength",
                  value |-> SignalPercent(rssi)]>>
          ELSE <<>>
    /\ UNCHANGED <<latencyBuffer, statsSignal, monitorVars, windowVars,
                   listenerVars, outsideTelemetry>>

\* updateConnectionStatus(false): the link gauges go back to 0
UpdateConnectionStatus ==
    /\ gauges' = [gauges EXCEPT !.signalStrength = 0, !.bluetoothLatency = 0]
    /\ lastRssi' = <<>>
    /\ dispatched' = <<>>
    /\ UNCHANGED <<latencyBuffer, statsSignal, monitorVars, windowVars,
                   listenerVars, outsideTelemetry>>

\* the battery levels the handler is run with, in hundredths of a full charge
BatteryLevels == {19, 20}

\* updateBattery, the handler of 'levelchange' and 'chargingchange' and the
\* first reading: battery.level * 100 is stored; the alert needs a level
\* below 0.2 and a battery that is not charging
UpdateBattery(level, charging) ==
    /\ gauges' = [gauges EXCEPT !.batteryLevel = level]
    /\ dispatched' =
          IF level < 20 /\ ~charging
          THEN <<[type |-> "warning", message |-> "Low battery",
                  value |-> level]>>
          ELSE <<>>
    /\ UNCHANGED <<latencyBuffer, statsSignal, lastRssi, monitorVars, windowVars,
                   listenerVars, outsideTelemetry>>

\* the latencies handed to updateLatency: at latencyThreshold and just above
LatencySamples == {200, 201}

RECURSIVE SumSeq(_)
SumSeq(seq) == IF seq = <<>> THEN 0 ELSE Head(seq) + SumSeq(Tail(seq))

\* updateLatency(latency): push to the rolling buffer of at most
\* maxLatencyBufferSize (50) entries, store the average, alert above
\* latencyThreshold (200)
UpdateLatency(latency) ==
    /\ Len(latencyBuffer) < MaxSamples
    /\ LET pushed == Append(latencyBuffer, latency)
           kept == IF Len(pushed) > 50 THEN Tail(pushed) ELSE pushed
           avgLatency == [num |-> SumSeq(kept), den |-> Len(kept)]
       IN  /\ latencyBuffer' = kept
           /\ gauges' = [gauges EXCEPT !.audioLatency = avgLatency]
           /\ dispatched' =
                 IF Exceeds(avgLatency, 200)
                 THEN <<[type |-> "warning",
                         message |-> "High audio latency detected",
                         value |-> avgLatency]>>
                 ELSE <<>>
    /\ UNCHANGED <<statsSignal, lastRssi, monitorVars, windowVars, listenerVars,
                   outsideTelemetry>>

\* the strengths handed to StatsMonitor.updateSignalStrength
StrengthInputs == {0 - 1, 0, 50, 100, 101}

\* StatsMonitor.updateSignalStrength(strength):
\* Math.max(0, Math.min(100, strength))
StatsUpdateSignalStrength(strength) ==
    /\ statsSignal' = Max(0, Min(100, strength))
    /\ UNCHANGED <<gauges, latencyBuffer, dispatched, lastRssi, monitorVars,
                   windowVars,
                   listenerVars, outsideTelemetry>>

\* ----------------------------------------------------------------- codec
\* A sample of a Float32Array is counted in units of
\* 1 / (negativeScale * positiveScale), so that both scalings of a sample in
\* [-1, 1] and both divisions of a 16-bit value are exact integers.
Unit == negativeScale * positiveScale

\* the value stored into the Int16Array for a sample: clamp to [-1, 1], scale
\* by 0x8000 below zero and by 0x7FFF otherwise; the store drops the fraction
ToPcm(sample) ==
    LET s == Max(0 - Unit, Min(Unit, sample))
    IN  IF s < 0 THEN 0 - ((0 - s) \div positiveScale) ELSE s \div negativeScale

\* the two bytes of a 16-bit value in the buffer, low byte first
BytesOf(pcm) ==
    LET u == IF pcm < 0 THEN pcm + 65536 ELSE pcm
    IN  <<u % 256, u \div 256>>

\* new Uint8Array(pcmData.buffer)
RECURSIVE Uint8View(_)
Uint8View(pcmData) ==
    IF pcmData = <<>> THEN <<>>
    ELSE BytesOf(Head(pcmData)) \o Uint8View(Tail(pcmData))

\* new Int16Array(data.buffer): the bytes in pairs, low byte first
Int16View(data) ==
    [i \in 1..(Len(data) \div 2) |->
        LET u == data[2 * i - 1] + 256 * data[2 * i]
        IN  IF u >= 32768 THEN u - 65536 ELSE u]

\* Math.ceil(a / b)
Ceil(a, b) == (a + b - 1) \div b

\* highCompression(data): every fourth byte
highCompression(data) ==
    [i \in 1..Ceil(Len(data), 4) |-> data[(i - 1) * 4 + 1]]

\* mediumCompression(data): every second byte
mediumCompression(data) ==
    [i \in 1..Ceil(Len(data), 2) |-> data[(i - 1) * 2 + 1]]

\* lowCompression(data): Math.round(data[i] / 2) * 2, stored into a Uint8Array
lowCompression(data) ==
    [i \in 1..Len(data) |-> (((data[i] + 1) \div 2) * 2) % 256]

\* processAudioData(audioData) under a compression setting
processAudioData(audioData, setting) ==
    LET pcmData == [i \in 1..Len(audioData) |-> ToPcm(audioData[i])]
        processedData == Uint8View(pcmData)
    IN  CASE setting = "high" -> highCompression(processedData)
          [] setting = "medium" -> mediumCompression(processedData)
          [] setting = "low" -> lowCompression(processedData)
          [] OTHER -> processedData

\* decompressHigh(data): every byte four times
decompressHigh(data) ==
    [i \in 1..(Len(data) * 4) |-> data[(i + 3) \div 4]]

\* decompressMedium(data): every byte twice
decompressMedium(data) ==
    [i \in 1..(Len(data) * 2) |-> data[(i + 1) \div 2]]

\* decompressLow(data): data[i] * 2, stored into a Uint8Array
decompressLow(data) ==
    [i \in 1..Len(data) |-> (data[i] * 2) % 256]

\* the switch of processReceivedAudio
Decompress(data, setting) ==
    CASE setting = "high" -> decompressHigh(data)
      [] setting = "medium" -> decompressMedium(data)
      [] setting = "low" -> decompressLow(data)
      [] OTHER -> data

\* pcm / 0x8000 below zero, pcm / 0x7FFF otherwise
ToFloat(pcm) ==
    IF pcm < 0 THEN pcm * positiveScale ELSE pcm * negativeScale

\* processReceivedAudio(compressedData) under a compression setting
processReceivedAudio(data, setting) ==
    LET pcmData == Int16View(Decompress(data, setting))
    IN  [i \in 1..Len(pcmData) |-> ToFloat(pcmData[i])]

\* the compression settings
Profiles == {"none", "low", "medium", "high"}

\* the samples of a frame: 0, 1, -1, 1/2, and the samples stored as 0x0101
\* and as 0x0100
FrameSamples ==
    {0, Unit, 0 - Unit, Unit \div 2, 257 * negativeScale, 256 * negativeScale}

\* the frames of 1..MaxFrameLen samples
Frames == UNION {[1..n -> FrameSamples] : n \in 1..MaxFrameLen}

\* the sender encodes the frame
Encode ==
    /\ frame # <<>>
    /\ compressedData = <<>>
    /\ compressedData' = processAudioData(frame, compression)
    /\ UNCHANGED <<compression, frame, received, outsideCodec>>

\* the receiver, under the same setting, decodes the payload
Decode ==
    /\ compressedData # <<>>
    /\ received = <<>>
    /\ received' = processReceivedAudio(compressedData, compression)
    /\ UNCHANGED <<compression, frame, compressedData, outsideCodec>>

\* ----------------------------------------------------------------- transport
\* the largest write the transport takes, in bytes
mtu == 512

\* split(packet, mtu): the pieces of the packet, each tagged with its index and
\* the total count
Split(data, size) ==
    [i \in 1..Ceil(Len(data), size) |->
        [chunkIndex |-> i,
         chunkCount |-> Ceil(Len(data), size),
         bytes |-> SubSeq(data, (i - 1) * size + 1, Min(i * size, Len(data)))]]

\* a packet of n bytes whose bytes differ from one piece to the next
Ramp(n) == [i \in 1..n |-> (i + i \div mtu) % 256]

PacketLengths == {1, mtu, mtu + 1, MaxChunks * mtu}

Packets == {Ramp(n) : n \in PacketLengths}

\* what sendAudioData hands to every writeValue call of one cycle:
\* `new Uint8Array(audioData.buffer)`, the whole buffer
WriteArguments(data) == <<[bytes |-> data]>>

\* sendAudioData(packet): the fan-out, and the writeValue calls one session
\* of the pool sees
SendPacket ==
    /\ cycles < MaxCycles
    /\ \E slow \in SUBSET WeakLinks : FanOut(slow)
    /\ written' = IF FanOutTargets(connectedDevices) = {}
                  THEN written
                  ELSE written \o WriteArguments(packet)
    /\ UNCHANGED <<audioVars, receiverVars, telemetryVars, codecVars,
                   healthVars, lowVars, noticeVars, packet, arrived, forwarded>>

\* handleAudioData(value) of the receiver: without isReceiving the value is
\* dropped, else its buffer is posted to the worklet at once
handleAudioData(value) ==
    IF isReceiving THEN Append(forwarded, value.bytes) ELSE forwarded

\* the characteristic notifies the receiver of one piece of the packet; the
\* pieces arrive in any order, each once
Notification(c) ==
    /\ rxGatt
    /\ c \notin {arrived[i].chunkIndex : i \in 1..Len(arrived)}
    /\ arrived' = Append(arrived, [chunkIndex |-> c, receiving |-> isReceiving,
                                   connected |-> isConnected])
    /\ forwarded' = handleAudioData(Split(packet, mtu)[c])
    /\ UNCHANGED <<packet, written, outsideTransport>>

\* ----------------------------------------------------------------- buffer health
\* the largest r with r * r <= n, for lo * lo <= n < hi * hi
RECURSIVE SqrtBetween(_, _, _)
SqrtBetween(lo, hi, n) ==
    IF hi - lo <= 1 THEN lo
    ELSE LET mid == (lo + hi) \div 2
         IN  IF mid * mid <= n THEN SqrtBetween(mid, hi, n)
                               ELSE SqrtBetween(lo, mid, n)

\* Math.sqrt, rounded down to an integer
Sqrt(n) == SqrtBetween(0, 46340, n)

\* the queue after push(now) and the shifts that bring it back to maxSize
PushBounded(queue, t, maxSize) ==
    LET pushed == Append(queue, t)
    IN  IF Len(pushed) > maxSize
        THEN SubSeq(pushed, Len(pushed) - maxSize + 1, Len(pushed))
        ELSE pushed

\* intervals[i - 1] = bufferQueue[i] - bufferQueue[i - 1]
Intervals(queue) == [i \in 1..(Len(queue) - 1) |-> queue[i + 1] - queue[i]]

\* the standard deviation of the intervals, in tenths of a millisecond:
\* sqrt(sum((b - mean)^2) / n) = sqrt(n * sum(b^2) - sum(b)^2) / n
StdDev(xs) ==
    LET n == Len(xs)
        squares == [i \in 1..n |-> xs[i] * xs[i]]
    IN  Sqrt(100 * (n * SumSeq(squares) - SumSeq(xs) * SumSeq(xs))) \div n

\* 100 * (1 - stdDev / maxAcceptableStdDev), in tenths of a percent
HealthUnclamped(xs) == 1000 - (100 * StdDev(xs)) \div maxAcceptableStdDev

\* Math.max(0, Math.min(100, ...)), in tenths of a percent
Health(xs) == Max(0, Min(1000, HealthUnclamped(xs)))

\* StatsMonitor.updateBufferHealth(health): what metrics.bufferHealth becomes
StatsUpdateBufferHealth(health) == Max(0, Min(1000, health))

\* the time between two calls of the capture callback, ms
Elapsed == {20, 120}

\* updateBufferHealth() at time t
UpdateBufferHealth(t) ==
    LET queue == PushBounded(bufferQueue, t, maxBufferSize)
    IN  /\ bufferQueue' = queue
        /\ arrivals' = arrivals + 1
        /\ IF Len(queue) >= 2
           THEN /\ intervals' = Intervals(queue)
                /\ bufferHealth' = StatsUpdateBufferHealth(Health(Intervals(queue)))
           ELSE UNCHANGED <<intervals, bufferHealth>>
        /\ UNCHANGED outsideHealth

\* a frame arrives: onaudioprocess runs updateBufferHealth
FrameArrives ==
    /\ arrivals < MaxArrivals
    /\ \E e \in Elapsed :
          UpdateBufferHealth(IF bufferQueue = <<>> THEN 0
                             ELSE bufferQueue[Len(bufferQueue)] + e)

\* ----------------------------------------------------------------- low profile
\* the byte streams: every single byte, and the streams of up to MaxBytes
\* of the bytes 0, 1 and 255
ByteStreams ==
    [1..1 -> 0..255] \cup UNION {[1..n -> {0, 1, 255}] : n \in 1..MaxBytes}

\* lowCompression(rawBytes)
LowEncode ==
    /\ lowCompressed = <<>>
    /\ lowCompressed' = lowCompression(rawBytes)
    /\ UNCHANGED <<rawBytes, decompressed, outsideLow>>

\* decompressLow(data) on what lowCompression returned
LowDecode ==
    /\ lowCompressed # <<>>
    /\ decompressed = <<>>
    /\ decompressed' = decompressLow(lowCompressed)
    /\ UNCHANGED <<rawBytes, lowCompressed, outsideLow>>

\* ----------------------------------------------------------------- notifications
\* hide(notification): the 'show' class is removed and a 'transitionend'
\* listener is added; nothing is deleted yet
hide(pending, notification) == pending \cup {notification}

Tracked(n) == \E i \in 1..Len(notifications) : notifications[i] = n

\* show(message, type, icon), up to the while loop: the element is created,
\* appended and added to this.notifications
Show ==
    /\ showPc = "idle"
    /\ shown < MaxShows
    /\ shown' = shown + 1
    /\ notifications' = Append(notifications, shown + 1)
    /\ showPc' = "loop"
    /\ loopIterations' = 0
    /\ UNCHANGED <<hiding, autoHide, outsideNotices>>

\* one iteration of `while (this.notifications.size > this.maxNotifications)`:
\* hide(oldest). The loop has no bound of its own: its iterations are counted
\* modulo MaxIterations + 1.
HideOldest ==
    /\ showPc = "loop"
    /\ Len(notifications) > maxNotifications
    /\ hiding' = hide(hiding, Head(notifications))
    /\ loopIterations' = (loopIterations + 1) % (MaxIterations + 1)
    /\ UNCHANGED <<notifications, autoHide, showPc, shown, outsideNotices>>

\* the loop condition is false: the rest of show() arms the auto-hide timer
\* of the new notification, and show() returns
ShowReturns ==
    /\ showPc = "loop"
    /\ Len(notifications) <= maxNotifications
    /\ autoHide' = autoHide \cup {shown}
    /\ showPc' = "idle"
    /\ UNCHANGED <<notifications, hiding, shown, loopIterations, outsideNotices>>

\* the auto-hide timer of n fires: hide(n) if n is still tracked
AutoHideFires(n) ==
    /\ showPc = "idle"
    /\ n \in autoHide
    /\ autoHide' = autoHide \ {n}
    /\ hiding' = IF Tracked(n) THEN hide(hiding, n) ELSE hiding
    /\ UNCHANGED <<notifications, showPc, shown, loopIterations, outsideNotices>>

\* 'transitionend' on n, which hide() listens to: n is removed from the
\* container and deleted from this.notifications if it is still tracked
TransitionEnd(n) ==
    /\ showPc = "idle"
    /\ n \in hiding
    /\ hiding' = hiding \ {n}
    /\ notifications' = SelectSeq(notifications, LAMBDA m : m # n)
    /\ UNCHANGED <<autoHide, showPc, shown, loopIterations, outsideNotices>>

\* ----------------------------------------------------------------- behaviours
\* The pool after n admissions: session 1 admitted at time 0, the others one
\* tick later.
InitialPool(n) ==
    [i \in 1..n |-> [id |-> i, sid |-> i,
                     lastActive |-> IF i = 1 THEN 0 ELSE Tick,
                     connected |-> TRUE]]

\* startHosting has completed
Hosting ==
    /\ isHost = TRUE
    /\ device = FALSE
    /\ server = TRUE
    /\ service = TRUE
    /\ characteristic = TRUE
    /\ signalStrengthInterval = TRUE
    /\ gattConnected = FALSE
    /\ roleCalls = <<>>

\* the BluetoothController after its constructor: no role yet
NoRole ==
    /\ isHost = FALSE
    /\ device = FALSE
    /\ server = FALSE
    /\ service = FALSE
    /\ characteristic = FALSE
    /\ signalStrengthInterval = FALSE
    /\ gattConnected = FALSE
    /\ roleCalls = <<>>

\* Every object after its constructor but for the role of the
\* BluetoothController, one tick after the first admission: no session yet,
\* or InitialSessions admitted.
Built ==
    /\ now = Tick
    /\ \E n \in {0, InitialSessions} :
          /\ connectedDevices = InitialPool(n)
          /\ sessions = n
    /\ connectionQueue = <<>>
    /\ requests = <<>>
    /\ disconnecting = {}
    /\ writes = {}
    /\ cycles = 0
    /\ drops = 0
    /\ released = [i \in 1..sessions |-> 0]
    /\ teardowns = <<>>
    /\ isBroadcasting = FALSE
    /\ mediaStream = 0
    /\ sourceNode = 0
    /\ isMonitoring = FALSE
    /\ streams = <<>>
    /\ starts = <<>>
    /\ stops = <<>>
    /\ rxDevice = FALSE
    /\ rxGatt = FALSE
    /\ isConnected = FALSE
    /\ isReceiving = FALSE
    /\ rssiInterval = FALSE
    /\ rxIntervals = 0
    /\ rxStarts = <<>>
    /\ rxConnects = 0
    /\ rxDisconnects = <<>>
    /\ metrics = NewMetrics
    /\ listeners = <<>>
    /\ evaluation = [alerts |-> <<>>, published |-> <<>>]
    /\ gauges = NewGauges
    /\ latencyBuffer = <<>>
    /\ dispatched = <<>>
    /\ statsSignal = 0
    /\ lastRssi = <<>>
    /\ added = <<>>
    /\ connectionListeners = <<>>
    /\ notified = <<>>
    /\ bufferQueue = <<>>
    /\ bufferHealth = 1000
    /\ intervals = <<>>
    /\ arrivals = 0
    /\ notifications = <<>>
    /\ hiding = {}
    /\ autoHide = {}
    /\ showPc = "idle"
    /\ shown = 0
    /\ loopIterations = 0

\* Every object after its constructor, and startHosting has completed
Constructed ==
    /\ Built
    /\ Hosting

\* no frame has been captured; the constructor sets compression 'medium'
NoFrame ==
    /\ compression = "medium"
    /\ frame = <<>>
    /\ compressedData = <<>>
    /\ received = <<>>

\* no byte stream is being encoded
NoBytes ==
    /\ rawBytes = <<>>
    /\ lowCompressed = <<>>
    /\ decompressed = <<>>

\* nothing is on the transport
NoTraffic ==
    /\ written = <<>>
    /\ arrived = <<>>
    /\ forwarded = <<>>

NoPacket ==
    /\ packet = <<>>
    /\ NoTraffic
    /\ NoBytes

\* the MovingAverage of its own has the largest capacity
Init ==
    /\ Constructed
    /\ window = MovingAverage(MaxWindowSize)
    /\ NoFrame
    /\ NoPacket

\* the MovingAverage of its own is built with any capacity
InitWindow ==
    /\ Constructed
    /\ \E size \in 1..MaxWindowSize : window = MovingAverage(size)
    /\ NoFrame
    /\ NoPacket

\* any frame is captured under any compression setting
InitCodec ==
    /\ Constructed
    /\ window = MovingAverage(MaxWindowSize)
    /\ compression \in Profiles
    /\ frame \in Frames
    /\ compressedData = <<>>
    /\ received = <<>>
    /\ NoPacket

\* the BluetoothController has no role yet
InitRole ==
    /\ Built
    /\ NoRole
    /\ window = MovingAverage(MaxWindowSize)
    /\ NoFrame
    /\ NoPacket

\* any packet is about to be sent
InitTransport ==
    /\ Constructed
    /\ window = MovingAverage(MaxWindowSize)
    /\ NoFrame
    /\ packet \in Packets
    /\ NoTraffic
    /\ NoBytes

\* any byte stream is about to be encoded under 'low'
InitLow ==
    /\ Constructed
    /\ window = MovingAverage(MaxWindowSize)
    /\ NoFrame
    /\ packet = <<>>
    /\ NoTraffic
    /\ rawBytes \in ByteStreams
    /\ lowCompressed = <<>>
    /\ decompressed = <<>>

\* admission: requests, handshakes, evictions, deadline timers, the clock
NextAdmission ==
    \/ HandleConnectionRequest
    \/ \E e \in disconnecting : DisconnectDone(e)
    \/ \E r \in 1..Len(requests) : ConnectSucceeds(r)
    \/ \E r \in 1..Len(requests) : ConnectFails(r)
    \/ \E r \in 1..Len(requests) : TimerFires(r)
    \/ AdvanceTime

\* fan-out and the transport
NextFanOut ==
    \/ HostSendsAudio
    \/ \E w \in writes : WriteSucceeds(w)
    \/ \E w \in writes, b \in BOOLEAN : WriteFails(w, b)
    \/ \E d \in WeakLinks : DeviceDrops(d)

\* teardown
NextTeardown == Disconnect

Next == NextAdmission \/ NextFanOut \/ NextTeardown

\* the whole controller
Spec == Init /\ [][Next]_vars

\* the admission path alone: no audio is being sent and no link drops
SpecAdmission == Init /\ [][NextAdmission]_vars

\* time passes while a writeValue is in flight
WriteTakesTime ==
    /\ writes # {}
    /\ AdvanceTime

\* the fan-out path alone: no admission request arrives while audio is sent,
\* links drop, the clock advances and the controller is torn down
NextFanOutAlone ==
    \/ NextFanOut
    \/ \E e \in disconnecting : DisconnectDone(e)
    \/ AdvanceTime
    \/ Disconnect

SpecFanOut == Init /\ [][NextFanOutAlone]_vars

\* capture drives the fan-out: one sendAudioData cycle per captured frame
NextCapture ==
    \/ OnAudioProcess
    \/ \E w \in writes : WriteSucceeds(w)
    \/ \E w \in writes, b \in BOOLEAN : WriteFails(w, b)
    \/ \E e \in disconnecting : DisconnectDone(e)
    \/ WriteTakesTime

SpecCapture == Init /\ [][NextCapture]_vars

\* the broadcast toggle of the host: the pool is left as it was initially
NextBroadcast ==
    \/ StartBroadcasting
    \/ \E c \in 1..Len(starts) : ResumeDone(c)
    \/ \E c \in 1..Len(starts) : GetUserMediaDone(c)
    \/ \E c \in 1..Len(starts) : StartFails(c)
    \/ StopBroadcasting

SpecBroadcast == Init /\ [][NextBroadcast]_vars

\* the receiver
NextReceiver ==
    \/ RxConnect
    \/ StartReceiving
    \/ \E c \in 1..Len(rxStarts) : RxResumeDone(c)
    \/ RxDisconnect
    \/ \E c \in 1..Len(rxDisconnects) : StopNotificationsDone(c)
    \/ \E c \in 1..Len(rxDisconnects) : StopNotificationsFails(c)
    \/ HostLost

SpecReceiver == Init /\ [][NextReceiver]_vars

\* the first PerformanceMonitor: measurements, battery, the interval, listeners
CpuSamples == {0, 99}

NextMonitor ==
    \/ \E name \in WindowMetrics :
          \E value \in Measurements(name) : AddMeasurement(name, value)
    \/ \E level \in BatteryLevels : BatteryReady(level)
    \/ \E level \in BatteryLevels : LevelChange(level)
    \/ \E cpu \in CpuSamples : UpdateMetrics(cpu)
    \/ AddListener

SpecMonitor == Init /\ [][NextMonitor]_vars

\* the two publishers and their subscribers
NextSubscribers ==
    \/ AddListener
    \/ \E cpu \in CpuSamples : UpdateMetrics(cpu)
    \/ AddConnectionListener
    \/ \E type \in ConnectionEventTypes : NotifyConnectionListeners(type)

SpecSubscribers == Init /\ [][NextSubscribers]_vars

\* the second PerformanceMonitor and the StatsMonitor: signal and battery
NextGauges ==
    \/ \E rssi \in RssiValues : UpdateSignalStrength(rssi)
    \/ UpdateConnectionStatus
    \/ \E level \in BatteryLevels, charging \in BOOLEAN :
          UpdateBattery(level, charging)
    \/ \E strength \in StrengthInputs : StatsUpdateSignalStrength(strength)

SpecGauges == Init /\ [][NextGauges]_vars

\* the codec: one frame encoded, then decoded
NextCodec == Encode \/ Decode

SpecCodec == InitCodec /\ [][NextCodec]_vars

\* one packet: the host sends it, and the receiver, once connected, is
\* notified of its pieces
NextTransport ==
    \/ SendPacket
    \/ RxConnect
    \/ StartReceiving
    \/ \E c \in 1..Len(rxStarts) : RxResumeDone(c)
    \/ HostLost
    \/ \E c \in 1..Ceil(Len(packet), mtu) : Notification(c)

SpecTransport == InitTransport /\ [][NextTransport]_vars

\* notifications are shown, time out and finish their transitions
NextNotices ==
    \/ Show
    \/ HideOldest
    \/ ShowReturns
    \/ \E n \in 1..shown : AutoHideFires(n)
    \/ \E n \in 1..shown : TransitionEnd(n)

\* a running show() call takes its next step
LiveNotices ==
    /\ Init
    /\ [][NextNotices]_vars
    /\ WF_vars(HideOldest)
    /\ WF_vars(ShowReturns)

\* the 'low' profile: one byte stream encoded, then decoded
NextLow == LowEncode \/ LowDecode

SpecLow == InitLow /\ [][NextLow]_vars

\* the roles of the BluetoothController are started, and audio is sent
NextRole ==
    \/ StartHosting
    \/ \E c \in 1..Len(roleCalls) : HostingStepDone(c)
    \/ ConnectToHost
    \/ \E c \in 1..Len(roleCalls), gatt \in BOOLEAN : ConnectingStepDone(c, gatt)
    \/ \E c \in 1..Len(roleCalls) : RoleStepFails(c)
    \/ HostSendsAudio

SpecRole == InitRole /\ [][NextRole]_vars

\* the capture callback keeps the buffer health up to date
NextHealth == FrameArrives

SpecHealth == Init /\ [][NextHealth]_vars

\* a MovingAverage of any capacity and the rolling latency buffer
NextWindow ==
    \/ \E value \in WindowSamples : AddToWindow(value)
    \/ \E latency \in LatencySamples : UpdateLatency(latency)

SpecWindow == InitWindow /\ [][NextWindow]_vars

\* a request that arrives before any initial session has become inactive
EarlyRequest ==
    /\ now - Tick < inactivityThreshold
    /\ HandleConnectionRequest

\* The queue under the scheduling the event loop gives: the clock keeps
\* advancing and a timer callback that is due is run. Nothing makes a
\* handshake complete, and nothing makes a request arrive. The requests
\* arrive early, so none of them evicts, and the clock runs until the last
\* deadline.
NextLive ==
    \/ EarlyRequest
    \/ \E r \in 1..Len(requests) : ConnectSucceeds(r)
    \/ \E r \in 1..Len(requests) : ConnectFails(r)
    \/ \E r \in 1..Len(requests) : TimerFires(r)
    \/ AdvanceTime
    \/ AdvanceToDeadline

Fairness ==
    /\ WF_vars(AdvanceTime)
    /\ WF_vars(AdvanceToDeadline)
    /\ \A r \in 1..MaxRequests : WF_vars(TimerFires(r))

LiveSpec == Init /\ [][NextLive]_vars /\ Fairness

\* ----------------------------------------------------------------- properties
Requests == 1..Len(requests)

Queued(r) == \E i \in 1..Len(connectionQueue) : connectionQueue[i] = r

\* the devices with a gatt.connect() in flight
ConnectingDevices == {requests[r].device : r \in {q \in Requests : requests[q].inflight > 0}}

RECURSIVE SumInflight(_)
SumInflight(n) == IF n = 0 THEN 0 ELSE requests[n].inflight + SumInflight(n - 1)

\* the gatt.connect() calls in flight
InFlight == SumInflight(Len(requests))

\* C1: the sessions that are connecting plus the sessions in connectedDevices
\* never number more than maxConnections (7).
C1_CapacityNeverExceeded ==
    Cardinality(PoolIds(connectedDevices) \cup ConnectingDevices) <= 7

\* C2: at most one gatt.connect() for a queued request is in flight at any
\* moment.
C2_OneAttemptInFlight == InFlight <= 1

\* C3: a request that arrived below capacity is resolved when its handshake
\* succeeds, and its queue entry is never shifted out of connectionQueue
\* before a connection attempt has been made for it.
C3_AdmittedBelowCapacity ==
    \A r \in Requests :
        requests[r].sizeAtArrival < 7 =>
            /\ requests[r].removedBy = "shift" => requests[r].attempts > 0
            /\ (requests[r].attempts = 1 /\ requests[r].connects = 1
                   /\ requests[r].timer # "fired")
                  => requests[r].outcome = "resolved"

\* a request that found the pool full and no session inactive on arrival
ArrivedAtFullFreshPool(r) ==
    /\ requests[r].sizeAtArrival >= 7
    /\ requests[r].staleAtArrival = {}

\* C4 as stated: a request that arrives at capacity with no session inactive
\* for more than 5000 ms is held in the queue, not rejected at arrival.
C4_HeldWhenFull ==
    \A r \in Requests :
        ArrivedAtFullFreshPool(r) =>
            requests[r].outcome # "full" /\ requests[r].enqueueTime >= 0

\* C4 amended: such a request is rejected at arrival ('Maximum connection
\* limit reached'): it is never queued, gets no timer and no connection
\* attempt, and the pool is left alone.
C4_RejectedWhenFull ==
    \A r \in Requests :
        ArrivedAtFullFreshPool(r) =>
            /\ requests[r].outcome = "full"
            /\ requests[r].enqueueTime = -1
            /\ requests[r].timer = "none"
            /\ requests[r].attempts = 0
            /\ requests[r].victim = 0
            /\ ~Queued(r)

C4_Witness ==
    \E r \in Requests :
        /\ ArrivedAtFullFreshPool(r)
        /\ requests[r].outcome = "full"
        /\ Len(connectedDevices) >= 7

\* the least recently active session of the pool, the smallest id among equals
LeastRecentlyActive(pool) ==
    CHOOSE e \in {pool[i] : i \in 1..Len(pool)} :
        \A i \in 1..Len(pool) :
            \/ e.lastActive < pool[i].lastActive
            \/ e.lastActive = pool[i].lastActive /\ e.id <= pool[i].id

\* the step in which handleConnectionRequest picks a session to evict
PicksVictim ==
    /\ Len(requests') = Len(requests) + 1
    /\ requests'[Len(requests')].victim # 0

\* C5: the session admission evicts is the one with the smallest lastActive
\* of the pool, the smallest id among those that share it.
C5_EvictsLeastRecentlyActive ==
    [][PicksVictim =>
          requests'[Len(requests')].victimSid =
              LeastRecentlyActive(connectedDevices).sid]_vars

\* a request that found the pool full with exactly one inactive session
ArrivedWithOneStale(r) ==
    /\ requests[r].sizeAtArrival >= 7
    /\ Cardinality(requests[r].staleAtArrival) = 1

\* the request has been pushed, attempted or admitted
Started(r) ==
    \/ requests[r].enqueueTime >= 0
    \/ requests[r].attempts > 0
    \/ InPool(connectedDevices, requests[r].device)

\* C6: with the pool full and exactly one session inactive for more than
\* 5000 ms, the one session evicted for the request is that session, and the
\* candidate is not queued, attempted or pooled while it is still in the pool.
C6_AdmittedAfterEviction ==
    \A r \in Requests :
        ArrivedWithOneStale(r) =>
            /\ requests[r].victimSid \in requests[r].staleAtArrival
            /\ Started(r) =>
                  requests[r].staleAtArrival \cap PoolSids(connectedDevices) = {}

C6_Witness ==
    \E r \in Requests :
        /\ requests[r].sizeAtArrival = 7
        /\ ArrivedWithOneStale(r)
        /\ requests[r].outcome = "resolved"
        /\ InPool(connectedDevices, requests[r].device)
        /\ Len(connectedDevices) = 7

\* the step in which an eviction removes its victim from the pool
EvictionRemoves(e) ==
    /\ e \in disconnecting
    /\ e \notin disconnecting'
    /\ e.req # 0
    /\ InPool(connectedDevices, e.device)
    /\ PoolGet(connectedDevices, e.device).sid = requests[e.req].victimSid
    /\ ~InPool(connectedDevices', e.device)

\* C7: a session removed by admission-eviction has, when it is removed, been
\* inactive for more than 5000 ms: activity recorded while the disconnect is
\* in progress keeps it in the pool.
C7_EvictedOnlyIfStillInactive ==
    [][\A e \in disconnecting :
          EvictionRemoves(e) =>
              now - PoolGet(connectedDevices, e.device).lastActive > 5000]_vars

\* C8: a request still unadmitted 10000 ms after it was queued fails with the
\* timeout error at that moment and is out of connectionQueue from then on,
\* and no request fails with the timeout error before that.
C8_TimeoutAtDeadline ==
    /\ [](\A r \in Requests :
            /\ (requests[r].enqueueTime >= 0 /\ requests[r].outcome = "pending")
                  => now - requests[r].enqueueTime <= 10000
            /\ Queued(r) => now - requests[r].enqueueTime <= 10000
            /\ requests[r].outcome = "timeout" => ~Queued(r))
    /\ [][\A r \in Requests :
            (requests[r].outcome # "timeout" /\ requests'[r].outcome = "timeout")
               => /\ now - requests[r].enqueueTime = 10000
                  /\ now' = now]_vars

C8_Witness ==
    \E r \in Requests :
        /\ requests[r].outcome = "timeout"
        /\ now - requests[r].enqueueTime = 10000
        /\ ~Queued(r)

\* C9: a request that was rejected, by its deadline or by a handshake error,
\* is never placed in connectedDevices nor announced with a 'connect' event.
C9_RejectedNeverAdmitted ==
    \A r \in Requests :
        requests[r].outcome \in {"timeout", "error"} =>
            /\ ~InPool(connectedDevices, requests[r].device)
            /\ requests[r].connects = 0

\* What the liveness of settlement rests on, in every specification: a pushed
\* request that is still pending has its deadline timer armed.
PendingHasTimer ==
    \A r \in Requests :
        (requests[r].enqueueTime >= 0 /\ requests[r].outcome = "pending")
            => requests[r].timer = "armed"

\* C10: every request placed in connectionQueue is eventually resolved or
\* rejected, also when its handshake never completes.
C10_EveryRequestSettled ==
    \A r \in 1..MaxRequests :
        (r \in Requests /\ requests[r].enqueueTime >= 0)
            ~> (r \in Requests /\ requests[r].outcome # "pending")

\* a request settled by its deadline while its handshake is still in flight
C10_Witness ==
    \E r \in Requests :
        /\ requests[r].enqueueTime >= 0
        /\ requests[r].outcome = "timeout"
        /\ requests[r].inflight > 0
        /\ requests[r].attempts = requests[r].inflight

\* A was pushed on connectionQueue before B
EnqueuedBefore(a, b) ==
    /\ requests[a].ticket > 0
    /\ requests[a].ticket < requests[b].ticket

\* the step in which a gatt.connect() made for request r settles
AttemptFinishes(r) == requests'[r].inflight < requests[r].inflight

\* C11: queued requests are decided in FIFO order. When a connection attempt
\* starts for B, no request enqueued before B has an attempt still in flight,
\* unless its timer has removed it; and the entry that processConnectionQueue
\* shifts out of connectionQueue is the entry whose attempt has just finished.
C11_DecidedInFifoOrder ==
    [][\A b \in Requests :
          /\ requests'[b].attempts > requests[b].attempts =>
                \A a \in Requests :
                    EnqueuedBefore(a, b) =>
                        \/ requests'[a].inflight = 0
                        \/ requests'[a].removedBy = "timer"
          /\ (requests[b].removedBy # "shift" /\ requests'[b].removedBy = "shift")
                => AttemptFinishes(b)]_vars

\* the entry of device d is the same before and after the step
SameEntry(d) ==
    /\ InPool(connectedDevices, d)
    /\ InPool(connectedDevices', d)
    /\ PoolGet(connectedDevices', d) = PoolGet(connectedDevices, d)

\* C12: when a write of a sendAudioData cycle succeeds, the lastActive of its
\* session becomes the current time, which is not earlier than the write, and
\* no other entry changes; when a write fails, no remaining session's
\* lastActive changes; recording activity for an id that is not in the pool
\* leaves the pool as it is. A write that settles at once in the step that
\* starts the cycle changes lastActive only for a live link, to the current
\* time.
C12_ActivityOnlyOnSuccess ==
    [][/\ \A w \in writes :
             /\ WriteSucceeds(w) =>
                   IF InPool(connectedDevices, w.device)
                   THEN /\ PoolIds(connectedDevices') = PoolIds(connectedDevices)
                        /\ PoolGet(connectedDevices', w.device).lastActive = now
                        /\ PoolGet(connectedDevices', w.device).lastActive >= w.issued
                        /\ \A d \in PoolIds(connectedDevices) \ {w.device} :
                              SameEntry(d)
                   ELSE connectedDevices' = connectedDevices
             /\ \A b \in BOOLEAN :
                   WriteFails(w, b) =>
                      \A d \in PoolIds(connectedDevices') : SameEntry(d)
       /\ cycles' > cycles =>
             \A d \in PoolIds(connectedDevices') :
                \/ SameEntry(d)
                \/ /\ PoolGet(connectedDevices, d).connected
                   /\ \A w \in writes' : w.device = d => w.cycle # cycles'
                   /\ PoolGet(connectedDevices', d) =
                         [PoolGet(connectedDevices, d) EXCEPT !.lastActive = now]]_vars

\* the write to session 1 of the only cycle so far succeeded after the clock
\* had advanced beyond the acknowledgement of session 2
C12_Witness ==
    /\ cycles = 1
    /\ writes = {}
    /\ InPool(connectedDevices, 1)
    /\ InPool(connectedDevices, 2)
    /\ PoolGet(connectedDevices, 1).lastActive > PoolGet(connectedDevices, 2).lastActive

\* the deviceInfo objects created so far
Sessions == 1..sessions

\* C13: closing is idempotent and releases each transport handle exactly
\* once. server.disconnect() is never invoked twice on a session, it has been
\* invoked once on every session that is no longer in the pool, whether
\* disconnectDevice or disconnect() closed it, and a repeated disconnect()
\* changes nothing.
C13_ReleasedExactlyOnce ==
    /\ [](\A sid \in Sessions :
            /\ released[sid] <= 1
            /\ sid \notin PoolSids(connectedDevices) => released[sid] = 1)
    /\ [][(teardowns # <<>> /\ Len(teardowns') > Len(teardowns))
            => UNCHANGED <<connectedDevices, connectionQueue, requests,
                           disconnecting, writes, released, characteristic,
                           signalStrengthInterval>>]_vars

C15_FailedWriteLeavesActiveSet ==
    [][\A w \in writes, b \in BOOLEAN :
          (WriteFails(w, b) /\ ~WriteSucceeds(w)) =>
             \/ ~InPool(connectedDevices', w.device)
             \/ \E e \in disconnecting' :
                   e.req = 0 /\ e.device = w.device /\ e.cycle = w.cycle]_vars

\* C16: fan-out cycles do not overlap. Every write in flight belongs to the
\* latest cycle: no write of the cycle for frame n is still unsettled once
\* the writes of the cycle for frame n+1 have been issued.
C16_CyclesDoNotOverlap == \A w \in writes : w.cycle = cycles

\* what startBroadcasting and stopBroadcasting work on
BroadcastState == <<isBroadcasting, mediaStream, sourceNode, isMonitoring, streams>>

\* C17: startBroadcasting called while isBroadcasting is true is a no-op: the
\* call returns at once, leaves the controller state as it is and never
\* acquires a microphone stream, creates a source node or starts
\* monitoring; stopBroadcasting called while not broadcasting changes
\* nothing.
C17_ToggleIsIdempotent ==
    /\ [](\A c \in 1..Len(starts) :
            starts[c].sawBroadcasting =>
                starts[c].pc = "returned" /\ starts[c].stream = 0)
    /\ [][/\ (Len(starts') > Len(starts) /\ isBroadcasting)
                => UNCHANGED BroadcastState
          /\ (Len(stops') > Len(stops) /\ ~isBroadcasting)
                => UNCHANGED BroadcastState]_vars

\* a start was called during a broadcast that is still on, and a stop was
\* called while nothing was being broadcast
C17_Witness ==
    /\ isBroadcasting
    /\ Len(streams) = 1
    /\ \E c \in 1..Len(starts) : starts[c].sawBroadcasting
    /\ \E k \in 1..Len(stops) : ~stops[k].sawBroadcasting

\* C18: stopping a broadcast tears down capture and drains every session.
\* When a stopBroadcasting call that found a broadcast on has run, the tracks
\* of the stream it held are stopped, its source node is disconnected and
\* released, and connectedDevices is empty.
C18_StopDrainsEverySession ==
    [][(Len(stops') > Len(stops) /\ isBroadcasting) =>
          /\ mediaStream' = 0
          /\ sourceNode' = 0
          /\ mediaStream # 0 => streams'[mediaStream].tracks = "stopped"
          /\ sourceNode # 0 => streams'[sourceNode].node = "disconnected"
          /\ connectedDevices' = <<>>]_vars

\* the step is a call of disconnect()
TearsDown == Len(teardowns') > Len(teardowns)

\* C19: when disconnect() returns no timer of the controller is armed: the
\* signal-strength interval is cleared and no request in connectionQueue has
\* its deadline timer armed.
C19_NoTimerAfterTeardown ==
    [][TearsDown =>
          /\ ~signalStrengthInterval'
          /\ \A i \in 1..Len(connectionQueue') :
                requests'[connectionQueue'[i]].timer # "armed"]_vars

\* disconnect() has been called and no handleConnectionRequest call has been
\* made since
TornDown ==
    /\ teardowns # <<>>
    /\ Len(requests) = teardowns[Len(teardowns)].requests

\* C20: from the return of disconnect() until the next admission request,
\* connectedDevices is empty and no 'connect' event is announced: an attempt
\* that was in flight when disconnect() ran adds no session.
C20_PoolStaysEmptyAfterTeardown ==
    [][TornDown' =>
          /\ connectedDevices' = <<>>
          /\ \A r \in Requests :
                requests'[r].connects = requests[r].connects]_vars

\* the step in which disconnect() call c returns or throws
RxDisconnectEnds(c) ==
    /\ rxDisconnects[c] = "stopNotifications"
    /\ rxDisconnects'[c] \in {"done", "failed"}

\* C21: ReceiverController.disconnect() releases the connection on every
\* path: when a call ends, normally or because stopNotifications threw, the
\* GATT connection is closed, isConnected and isReceiving are false and the
\* RSSI interval is cleared.
C21_DisconnectReleasesOnEveryPath ==
    [][\A c \in 1..Len(rxDisconnects) :
          RxDisconnectEnds(c) =>
              /\ ~rxGatt'
              /\ ~isConnected'
              /\ ~isReceiving'
              /\ ~rssiInterval']_vars


\* ----------------------------------------------------------------- telemetry
\* the alerts a listener finds in a payload
AlertsIn(payload) ==
    IF "alerts" \in DOMAIN payload THEN payload.alerts ELSE <<>>

\* a fan-out of the handler handed listener l a payload with the alert of
\* the metric
AlertDelivered(e, l, name) ==
    \E p \in 1..Len(e.published) :
        \E d \in 1..Len(e.published[p].deliveries) :
            LET delivery == e.published[p].deliveries[d]
            IN  /\ delivery.listener = l
                /\ \E a \in 1..Len(AlertsIn(delivery.payload)) :
                      AlertsIn(delivery.payload)[a].message = AlertMessage[name]

\* this step is a handler that ends in checkThresholds()
Evaluates ==
    \/ \E name \in WindowMetrics :
          \E value \in Measurements(name) : AddMeasurement(name, value)
    \/ \E level \in BatteryLevels : LevelChange(level)
    \/ \E cpu \in CpuSamples : UpdateMetrics(cpu)

\* C22: on every threshold evaluation, every subscriber is handed an alert for
\* a metric window if and only if the average of that window strictly exceeds
\* its threshold (audio latency 100, transport latency 200, processing time 50).
C22_AlertIffAverageExceeds ==
    [][Evaluates =>
          \A name \in WindowMetrics : \A i \in 1..Len(listeners') :
              AlertDelivered(evaluation', listeners'[i], name)
                  <=> Exceeds(average(metrics'[name]), thresholds[name])]_vars

\* the last handler dispatched the alert with this message
Dispatched(message) ==
    \E a \in 1..Len(dispatched) : dispatched[a].message = message

\* C23: a low-level alert fires on an evaluation exactly when the battery
\* level is strictly below 20% or the signal percentage is below 30%, whatever
\* the charging state.
C23_LowLevelAlertExactlyWhenLow ==
    [][/\ \A level \in BatteryLevels, charging \in BOOLEAN :
              UpdateBattery(level, charging)
                  => (Dispatched("Low battery")' <=> level < 20)
       /\ \A rssi \in RssiValues :
              UpdateSignalStrength(rssi)
                  => (Dispatched("Poor signal strength")'
                          <=> SignalPercent(rssi) < 30)]_vars

\* C24: for every integer rssi, updateSignalStrength stores 0 for
\* rssi <= -100, 100 for rssi >= -50 and 2*(rssi+100) in between; the stored
\* signal strength of either monitor is always within 0..100.
C24_SignalPercentIsClamped ==
    /\ lastRssi # <<>> =>
          gauges.signalStrength =
              IF lastRssi[1] <= 0 - 100 THEN 0
              ELSE IF lastRssi[1] >= 0 - 50 THEN 100
              ELSE 2 * (lastRssi[1] + 100)
    /\ gauges.signalStrength \in 0..100
    /\ statsSignal \in 0..100

\* a reading between the two ends of the range was stored
C24_Witness == lastRssi = <<0 - 71>> /\ gauges.signalStrength = 58

\* the last k entries of a sequence
LastOf(seq, k) == SubSeq(seq, Len(seq) - k + 1, Len(seq))

\* the window holds the last min(n, size) values added, its sum is their sum
\* and average() is that sum over their number
HoldsLastValues ==
    /\ window.values = LastOf(added, Min(Len(added), window.size))
    /\ window.sum = SumSeq(window.values)
    /\ average(window) =
          IF window.values = <<>>
          THEN [num |-> 0, den |-> 1]
          ELSE [num |-> SumSeq(window.values), den |-> Len(window.values)]

\* the capacities the constructor gives the four windows
CapacitiesAsBuilt ==
    /\ metrics.audioLatency.size = 50
    /\ metrics.bluetoothLatency.size = 50
    /\ metrics.processingTime.size = 50
    /\ metrics.cpuUsage.size = 10
    /\ Len(latencyBuffer) <= 50

\* C25 as stated: after any sequence of add(value) calls the window holds the
\* last min(n, size) values in arrival order, its running sum equals the sum
\* of the held values and average() is that sum over their number (0 when
\* empty); the latency and processing windows have capacity 50, the CPU
\* window 10.
C25_WindowHoldsLastValues == HoldsLastValues /\ CapacitiesAsBuilt

\* every value added and every running sum so far is an exact Number
SumsAreExact == SumSeq(added) < 2 ^ MantissaBits

\* C25, amended: the same, for values whose running sums are exact; the held
\* values and the capacities need no such condition.
C25_ExactWhileSumsAreExact ==
    /\ window.values = LastOf(added, Min(Len(added), window.size))
    /\ SumsAreExact => HoldsLastValues
    /\ CapacitiesAsBuilt

\* a window of capacity 2 has shifted values out, with exact sums
C25_Witness ==
    /\ window.size = 2
    /\ Len(added) = 4
    /\ added[1] # added[4]
    /\ SumsAreExact

\* every fan-out the last handlers made
Publications == evaluation.published \o notified

\* the listeners of a fan-out, in the order they were called
Invoked(p) == [d \in 1..Len(p.deliveries) |-> p.deliveries[d].listener]

\* C26: when an event is published to the registered listeners and any subset
\* of them throws, every listener is still invoked exactly once, with the
\* event, and the publisher does not fail.
C26_FanOutIsolatesFailures ==
    \A p \in 1..Len(Publications) :
        /\ Invoked(Publications[p]) = Publications[p].registered
        /\ ~Publications[p].failed

\* both publishers have called two listeners of which the first threw
C26_Witness ==
    /\ Len(notified) = 1
    /\ Len(evaluation.published) = 1
    /\ \A p \in 1..Len(Publications) :
          /\ Len(Publications[p].registered) = 2
          /\ Publications[p].deliveries[1].threw
          /\ ~Publications[p].deliveries[2].threw

\* ----------------------------------------------------------------- codec
\* C27: for compression 'none', decoding the encoding of a frame returns the
\* frame bit-exact, for every frame of samples in [-1.0, 1.0].
C27_NoneRoundTripIsExact ==
    (compression = "none" /\ received # <<>>) => received = frame

\* the decimation factor of a setting
Factor(setting) ==
    CASE setting = "high" -> 4 [] setting = "medium" -> 2 [] OTHER -> 1

\* every Nth entry of a sequence, from the first
EveryNth(seq, n) == [i \in 1..Ceil(Len(seq), n) |-> seq[(i - 1) * n + 1]]

\* every entry of a sequence n times
Repeated(seq, n) == [i \in 1..(Len(seq) * n) |-> seq[(i + n - 1) \div n]]

\* the 16-bit samples of the frame
PcmOfFrame == [i \in 1..Len(frame) |-> ToPcm(frame[i])]

\* the 16-bit samples the receiver reconstructs from the payload
Reconstructed == Int16View(Decompress(compressedData, compression))

\* C28: for factor N (medium 2, high 4) the payload is every Nth 16-bit
\* sample of the frame with both of its bytes, so ceil(L / N) samples for a
\* frame of L, and decoding repeats each kept sample N times.
C28_DecimatesWholeSamples ==
    (compression \in {"medium", "high"} /\ compressedData # <<>>) =>
        /\ compressedData = Uint8View(EveryNth(PcmOfFrame, Factor(compression)))
        /\ Len(compressedData) = 2 * Ceil(Len(frame), Factor(compression))
        /\ Reconstructed = Repeated(Int16View(compressedData), Factor(compression))

\* C29: for every setting and every frame of L >= 1 samples, decoding the
\* encoded frame yields a frame of exactly L samples.
C29_DecodedLengthIsFrameLength ==
    received # <<>> => Len(received) = Len(frame)

\* the magnitude of a difference
Distance(a, b) == IF a < b THEN b - a ELSE a - b

\* the index of the sample that sample i is held from, in groups of n
HeldFrom(i, n) == i - ((i - 1) % n)

\* C30: for medium and high, each reconstructed 16-bit sample differs from the
\* original sample at its index by no more than the original differs from the
\* kept sample of its group of N.
C30_ErrorWithinLocalDelta ==
    (compression \in {"medium", "high"} /\ received # <<>>) =>
        \A i \in 1..Min(Len(frame), Len(Reconstructed)) :
            Distance(Reconstructed[i], PcmOfFrame[i])
                <= Distance(PcmOfFrame[i],
                            PcmOfFrame[HeldFrom(i, Factor(compression))])

\* ----------------------------------------------------------------- announcements
\* C34: each admission is announced exactly once: an admitted request has had
\* one 'connect' event and one insertion into connectedDevices when none of
\* its connection attempts is in flight any more, and never more than one,
\* also when further requests arrive while its attempt is in flight.
C34_AdmissionAnnouncedOnce ==
    \A r \in 1..Len(requests) :
        /\ requests[r].connects <= 1
        /\ (requests[r].outcome = "resolved" /\ requests[r].inflight = 0)
              => requests[r].connects = 1

\* ----------------------------------------------------------------- pieces
\* C31: the writes of one packet to a session are its ceil(len/mtu) pieces, in
\* index order, each tagged with its index and the total count, and none of
\* them carries more than mtu bytes.
C31_WritesAreMtuPieces ==
    written # <<>> =>
        /\ written = Split(packet, mtu)
        /\ \A i \in 1..Len(written) : Len(written[i].bytes) <= mtu

\* C32: while every piece so far arrived at a receiving receiver, the worklet
\* has been handed nothing before the last piece of the packet and exactly the
\* packet after it, whatever the order of arrival.
C32_ReassembledInAnyOrder ==
    (\A i \in 1..Len(arrived) : arrived[i].receiving) =>
        forwarded = IF Len(arrived) = Ceil(Len(packet), mtu)
                    THEN <<packet>>
                    ELSE <<>>

\* ----------------------------------------------------------------- buffer health
\* C33: once at least 11 frames have arrived, every health computation uses
\* exactly the 10 most recent intervals between arrivals, and the reported
\* health always lies within [0, 100].
C33_HealthOverTenIntervals ==
    /\ arrivals >= 11 => Len(intervals) = 10
    /\ 0 <= bufferHealth /\ bufferHealth <= 1000

\* ----------------------------------------------------------------- role starts
\* a sendAudioData call now would issue at least one write
WouldWrite(role) ==
    role.isHost /\ role.characteristic /\ FanOutTargets(connectedDevices) # {}

\* C35: after a role start has thrown, isHost, device, server, service and
\* characteristic have their values from before the call, no link the call
\* opened is open, and sendAudioData issues no write it would not have
\* issued before the call.
C35_FailedStartRestoresState ==
    (roleCalls # <<>> /\ roleCalls[Len(roleCalls)].pc = "threw") =>
        LET before == roleCalls[Len(roleCalls)].before
        IN  /\ RoleState = before
            /\ WouldWrite(RoleState) => WouldWrite(before)

\* ----------------------------------------------------------------- receiving
\* C36: in every reachable state of the receiver isReceiving implies
\* isConnected, and every notification whose data was forwarded to playback
\* arrived while both were true.
C36_ReceivingImpliesConnected ==
    /\ isReceiving => isConnected
    /\ \A i \in 1..Len(arrived) : arrived[i].receiving => arrived[i].connected

\* C37: at most one RSSI polling interval is armed, and none is armed while
\* isConnected is false.
C37_AtMostOneRssiInterval ==
    /\ rxIntervals <= 1
    /\ ~isConnected => rxIntervals = 0

\* ----------------------------------------------------------------- microphone
\* the microphone streams whose tracks have not been stopped
HeldStreams == {i \in 1..Len(streams) : streams[i].tracks = "live"}

\* a startBroadcasting call is awaiting resume() or getUserMedia
StartInFlight ==
    \E c \in 1..Len(starts) : starts[c].pc \in {"resume", "getUserMedia"}

\* C38: under any interleaving of startBroadcasting and stopBroadcasting at
\* most one microphone stream is held unreleased, and when a stopBroadcasting
\* call has run with no start in flight no microphone stream is held.
C38_AtMostOneMicrophoneStream ==
    /\ [](Cardinality(HeldStreams) <= 1)
    /\ [][(Len(stops') > Len(stops) /\ ~StartInFlight) => HeldStreams' = {}]_vars

\* ----------------------------------------------------------------- low profile
\* the distance of two bytes on the circle of 256 values
WrapDistance(a, b) ==
    LET d == IF a < b THEN b - a ELSE a - b
    IN  Min(d, 256 - d)

\* C39: under 'low', decoding the encoding of a byte stream returns a stream
\* of the same length in which every byte is within the quantization step (1)
\* of the original byte, distances taken with 8-bit wrap-around.
C39_LowWithinQuantizationStep ==
    decompressed # <<>> =>
        /\ Len(decompressed) = Len(rawBytes)
        /\ \A i \in 1..Len(rawBytes) :
              WrapDistance(decompressed[i], rawBytes[i]) <= 1

\* ----------------------------------------------------------------- notifications
\* C40: show() always terminates, whatever the number of notifications on
\* display, and when it has returned at most maxNotifications notifications
\* are tracked.
C40_ShowTerminatesWithinLimit ==
    /\ (showPc = "loop") ~> (showPc = "idle")
    /\ [](showPc = "idle" => Len(notifications) <= maxNotifications)

====
